---- MODULE Spec2Model ----
(***************************************************************************)
(* mymoney2: transaction ingestion, reconciliation and categorization.     *)
(*                                                                         *)
(* The module holds three state machines over one set of variables:        *)
(*   SpecRules  - the categorization_rules table and categorizeTransaction *)
(*   SpecImport - the transactions table, upsertTransaction and            *)
(*                importTransactionsBatch on the shared sqlite connection  *)
(*   SpecToken  - the gocardless_tokens singleton and getAccessToken       *)
(*                                                                         *)
(* Text is a sequence of one-character strings, so that toUpperCase,       *)
(* split, trim and includes are computed and not assumed.                  *)
(***************************************************************************)
EXTENDS Integers, Sequences, FiniteSets, TLC

VARIABLES
    rulesTable,   \* categorization_rules: set of rows
    categories,   \* categories: set of ids
    clock,        \* CURRENT_TIMESTAMP, in seconds
    nextRuleId,   \* AUTOINCREMENT counter of categorization_rules
    lastCall,     \* the last categorizeTransaction call and what it returned
    tokenRows,    \* gocardless_tokens: set of rows (CHECK (id = 1): at most one)
    now,          \* Date.now(), in minutes
    issued,       \* number of access tokens the remote API has issued
    call,         \* the running (or last finished) getAccessToken call
    store,        \* transactions as the one sqlite connection sees them: id -> row
    durable,      \* transactions as committed
    inTxn,        \* a BEGIN TRANSACTION is open on the connection
    imp,          \* the running (or last finished) importTransactionsBatch
    lastUpsert,   \* the last upsertTransaction: its argument and the row it found
    bulk,         \* the running (or last finished) applyRulesToUncategorized
    accounts,     \* accounts: set of rows
    sync,         \* the running (or last finished) remote sync request
    lastDelete,   \* the last deleteCategory and the tables it met
    lastRequest,  \* the last import request that was turned away, and why
    norm,         \* the last call of a normaliser on its own: input and output
    other,        \* what operations beside an open batch have written
    pair          \* two calls of getAccessToken in progress at once

rulesVars == <<rulesTable, categories, clock, nextRuleId, lastCall>>
tokenVars == <<tokenRows, now, issued, call>>
importVars == <<store, durable, inTxn, imp, lastUpsert>>
applyVars == <<bulk>>
syncVars == <<accounts, sync>>
adminVars == <<lastDelete, lastRequest>>
sideVars == <<norm, other, pair>>
vars == <<rulesTable, categories, clock, nextRuleId, lastCall,
          tokenRows, now, issued, call,
          store, durable, inTxn, imp, lastUpsert,
          bulk, accounts, sync, lastDelete, lastRequest, norm, other, pair>>

(***************************************************************************)
(* Bounds of the model.                                                    *)
(***************************************************************************)
MaxRuleId == 2
MaxClock == 1
MaxNow == 3
MaxIssued == 3
MaxBatch == 2
MaxManual == 3
MaxRequisitions == 2
ScaledLimit == 2

(***************************************************************************)
(* SQL NULL / JS null of an integer column. Category ids are AUTOINCREMENT *)
(* and start at 1; `!categoryId` treats 0 and null alike.                  *)
(***************************************************************************)
NoCategory == 0

(***************************************************************************)
(* Token values. Tokens are numbered in the order the remote API issues    *)
(* them; 0 stands for a missing (null) token. Time is counted in minutes.  *)
(***************************************************************************)
NoToken == 0
TokenBuffer == 5

(* access_expires of a token response, in minutes. *)
Durations == {6}

NoRow == [access_token |-> NoToken, refresh_token |-> NoToken, expires_at |-> 0]

NoTokenCall ==
    [pc |-> "idle", found |-> FALSE, seen |-> NoRow, now0 |-> 0,
     requests |-> <<>>, writes |-> 0, result |-> NoToken, from |-> "none",
     refreshFailed |-> FALSE, resp |-> NoRow]

(***************************************************************************)
(* Transaction values. Amounts are integer cents. Texts and dates are      *)
(* sequences of one-character strings. A null date is the empty sequence:  *)
(* no path produces the empty string as a date (convertDate maps a missing *)
(* or empty ValueDate to null, `valueDate || bookingDate` does the same).  *)
(* A null original_currency or notes column is the token NoText; a null    *)
(* original_amount is 0, which is what `originalAmount || null` makes of 0.*)
(***************************************************************************)
NoDate == <<>>
NoText == "<null>"
NoAmount == 0

NoResults == [imported |-> 0, skipped |-> 0, errors |-> <<>>]

NoImport ==
    [pc |-> "idle", statement |-> <<>>, accountId |-> <<>>, currency |-> "BGN",
     batch |-> <<>>, i |-> 0, results |-> NoResults, log |-> <<>>,
     startStore |-> {}, fresh |-> FALSE, round |-> 0,
     prevResults |-> NoResults, prevFresh |-> FALSE,
     commitFailed |-> FALSE, raised |-> FALSE]

NoUpsert == [done |-> FALSE, ok |-> FALSE, via |-> "none", tx |-> <<>>, before |-> {}]

(***************************************************************************)
(* The accounts table holds the account for manual entries from the moment *)
(* the database is initialised.                                            *)
(***************************************************************************)
CASH == <<"C", "A", "S", "H">>

CashAccount ==
    [id |-> CASH, name |-> "cash", currency |-> "EUR", balance |-> 0, last_synced |-> FALSE]

NoBulk ==
    [pc |-> "idle", loaded |-> <<>>, i |-> 0,
     totalUncategorized |-> 0, categorizedCount |-> 0,
     startStore |-> {}, step |-> [done |-> FALSE], round |-> 0]

NoSync ==
    [pc |-> "idle", kind |-> "none", credentials |-> TRUE,
     requisitions |-> <<>>, r |-> 1, a |-> 1, syncedAccounts |-> <<>>,
     order |-> <<>>, k |-> 1, byAccount |-> <<>>, totalSynced |-> 0,
     requests |-> <<>>, raised |-> FALSE,
     startAccounts |-> {}, startStore |-> {}]

NoDelete ==
    [done |-> FALSE, id |-> 0, store |-> {}, rulesTable |-> {}, categories |-> {}]

NoNorm == [op |-> "none"]

\* Nothing was written beside a batch.
NoOther == [writes |-> {}]

\* One of two calls of getAccessToken: where it is, the response of its
\* exchange, what saveGoCardlessToken read, and what it returned.
NoPairCall ==
    [pc |-> "idle", resp |-> NoRow, existing |-> FALSE, result |-> NoToken,
     exchangeFailed |-> FALSE]

\* No pair of calls is in progress.
NoPair == [p \in {1, 2} |-> NoPairCall]

NoRequest ==
    [done |-> FALSE, route |-> "none", status |-> 0, body |-> [hasContent |-> FALSE],
     store |-> {}]

InitLater ==
    /\ bulk = NoBulk
    /\ accounts = {CashAccount}
    /\ sync = NoSync
    /\ lastDelete = NoDelete
    /\ lastRequest = NoRequest
    /\ norm = NoNorm
    /\ other = NoOther
    /\ pair = NoPair

(***************************************************************************)
(* Text helpers.                                                           *)
(***************************************************************************)
UpChar(c) ==
    CASE c = "a" -> "A"
      [] c = "b" -> "B"
      [] c = "c" -> "C"
      [] c = "d" -> "D"
      [] c = "e" -> "E"
      [] c = "f" -> "F"
      [] c = "g" -> "G"
      [] c = "h" -> "H"
      [] c = "i" -> "I"
      [] c = "j" -> "J"
      [] c = "k" -> "K"
      [] c = "l" -> "L"
      [] c = "m" -> "M"
      [] c = "n" -> "N"
      [] c = "o" -> "O"
      [] c = "p" -> "P"
      [] c = "q" -> "Q"
      [] c = "r" -> "R"
      [] c = "s" -> "S"
      [] c = "t" -> "T"
      [] c = "u" -> "U"
      [] c = "v" -> "V"
      [] c = "w" -> "W"
      [] c = "x" -> "X"
      [] c = "y" -> "Y"
      [] c = "z" -> "Z"
      [] OTHER -> c

toUpperCase(s) == [i \in 1..Len(s) |-> UpChar(s[i])]

SetMin(S) == CHOOSE x \in S : \A y \in S : x <= y
SetMax(S) == CHOOSE x \in S : \A y \in S : x >= y

trim(s) ==
    LET keep == {i \in 1..Len(s) : s[i] # " "}
    IN  IF keep = {} THEN <<>> ELSE SubSeq(s, SetMin(keep), SetMax(keep))

RECURSIVE split(_, _)
split(s, sep) ==
    LET at == {i \in 1..Len(s) : s[i] = sep}
    IN  IF at = {} THEN <<s>>
        ELSE <<SubSeq(s, 1, SetMin(at) - 1)>>
                 \o split(SubSeq(s, SetMin(at) + 1, Len(s)), sep)

includes(text, p) ==
    \E i \in 0..(Len(text) - Len(p)) : SubSeq(text, i + 1, i + Len(p)) = p

join2(a, b) == a \o <<" ">> \o b

(***************************************************************************)
(* Input domains of the rules machine.                                     *)
(***************************************************************************)
Patterns == { <<"a">>, <<" ", "|", "B", " ">> }
Priorities == {1, 10}
CategoryIds == {1, 2}

Texts ==
    { [description |-> <<"A">>, counterpartyName |-> <<>>],
      [description |-> <<"b">>, counterpartyName |-> <<"a">>] }

NoCall == [done |-> FALSE,
           tx |-> [description |-> <<>>, counterpartyName |-> <<>>],
           rows |-> <<>>, out |-> NoCategory]

(***************************************************************************)
(* getAllCategorizationRules: the rules joined with their category,        *)
(* ORDER BY priority DESC, created_at ASC. created_at holds whole seconds; *)
(* SQL leaves the order of rows with equal sort keys open, so every order  *)
(* that respects the two keys is a result the query can give.              *)
(***************************************************************************)
SqlBefore(r1, r2) ==
    \/ r1.priority > r2.priority
    \/ r1.priority = r2.priority /\ r1.created_at < r2.created_at

getAllCategorizationRules(table, cats) ==
    LET joined == {r \in table : r.category_id \in cats}
        n == Cardinality(joined)
    IN  {s \in [1..n -> joined] :
            /\ \A i, j \in 1..n : i # j => s[i] # s[j]
            /\ \A i, j \in 1..n : i < j => ~SqlBefore(s[j], s[i])}

(* sort((a, b) => a.priority - b.priority): the comparator turned round. *)
sortByPriorityAscending(rs) ==
    LET n == Len(rs)
        rank(i) == 1 + Cardinality({j \in 1..n :
                        \/ rs[j].priority < rs[i].priority
                        \/ rs[j].priority = rs[i].priority /\ j < i})
    IN  [k \in 1..n |-> rs[CHOOSE i \in 1..n : rank(i) = k]]

(***************************************************************************)
(* activeRules.sort((a, b) => b.priority - a.priority): a stable sort.     *)
(***************************************************************************)
sortByPriority(rs) ==
    LET n == Len(rs)
        rank(i) == 1 + Cardinality({j \in 1..n :
                        \/ rs[j].priority > rs[i].priority
                        \/ rs[j].priority = rs[i].priority /\ j < i})
    IN  [k \in 1..n |-> rs[CHOOSE i \in 1..n : rank(i) = k]]

IsActive(r) == r.active

searchTextOf(tx) == toUpperCase(join2(tx.description, tx.counterpartyName))

(* The alternative used untrimmed and unchecked for emptiness. *)
alternativeMatchesUntrimmed(p, searchText) == includes(searchText, p)

(* One alternative p of a pattern against the search text. *)
alternativeMatches(p, searchText) ==
    LET trimmedPattern == trim(p)
    IN  trimmedPattern # <<>> /\ includes(searchText, trimmedPattern)

ruleMatches(rule, searchText) ==
    LET patterns == split(toUpperCase(rule.pattern), "|")
    IN  \E k \in 1..Len(patterns) : alternativeMatches(patterns[k], searchText)

categorizeTransaction(rows, tx) ==
    LET activeRules == sortByPriority(SelectSeq(rows, IsActive))
        searchText == searchTextOf(tx)
        hits == {i \in 1..Len(activeRules) : ruleMatches(activeRules[i], searchText)}
    IN  IF hits = {} THEN NoCategory
        ELSE activeRules[SetMin(hits)].category_id

(***************************************************************************)
(* Rule operations.                                                        *)
(***************************************************************************)
createCategorizationRule(pattern, categoryId, priority) ==
    /\ nextRuleId <= MaxRuleId
    /\ categoryId \in categories
    /\ rulesTable' = rulesTable \cup
           {[id |-> nextRuleId, pattern |-> pattern, category_id |-> categoryId,
             priority |-> priority, active |-> TRUE, created_at |-> clock]}
    /\ nextRuleId' = nextRuleId + 1
    /\ lastCall' = NoCall
    /\ UNCHANGED <<categories, clock>>
    /\ UNCHANGED <<tokenVars, importVars, applyVars, syncVars, adminVars, sideVars>>

(* The fields an update request carries; the others are undefined. *)
RuleUpdates ==
    {[fields |-> {"priority"}, priority |-> pr, active |-> TRUE, categoryId |-> 1] :
        pr \in Priorities}
    \cup {[fields |-> {"active"}, priority |-> 1, active |-> a, categoryId |-> 1] :
        a \in BOOLEAN}

ApplyRuleUpdate(r, u) ==
    [r EXCEPT !.priority = IF "priority" \in u.fields THEN u.priority ELSE @,
              !.active = IF "active" \in u.fields THEN u.active ELSE @,
              !.category_id = IF "categoryId" \in u.fields THEN u.categoryId ELSE @]

updateCategorizationRule(id, u) ==
    /\ \E r \in rulesTable : r.id = id
    /\ "categoryId" \in u.fields => u.categoryId \in categories
    /\ rulesTable' = {IF r.id = id THEN ApplyRuleUpdate(r, u) ELSE r : r \in rulesTable}
    /\ rulesTable' # rulesTable
    /\ lastCall' = NoCall
    /\ UNCHANGED <<categories, clock, nextRuleId>>
    /\ UNCHANGED <<tokenVars, importVars, applyVars, syncVars, adminVars, sideVars>>

deleteCategorizationRule(id) ==
    /\ \E r \in rulesTable : r.id = id
    /\ rulesTable' = {r \in rulesTable : r.id # id}
    /\ lastCall' = NoCall
    /\ UNCHANGED <<categories, clock, nextRuleId>>
    /\ UNCHANGED <<tokenVars, importVars, applyVars, syncVars, adminVars, sideVars>>

(* A second passes. A second in which no rule was created leaves no trace in
   the table, so only the seconds that stamped a rule are counted. *)
Tick ==
    /\ clock < MaxClock
    /\ \E r \in rulesTable : r.created_at = clock
    /\ clock' = clock + 1
    /\ lastCall' = NoCall
    /\ UNCHANGED <<rulesTable, categories, nextRuleId>>
    /\ UNCHANGED <<tokenVars, importVars, applyVars, syncVars, adminVars, sideVars>>

(* A call of categorizeTransaction on the rows the storage returns. *)
Categorize(tx) ==
    /\ \E rows \in getAllCategorizationRules(rulesTable, categories) :
           lastCall' = [done |-> TRUE, tx |-> tx, rows |-> rows,
                        out |-> categorizeTransaction(rows, tx)]
    /\ UNCHANGED <<rulesTable, categories, clock, nextRuleId>>
    /\ UNCHANGED <<tokenVars, importVars, applyVars, syncVars, adminVars, sideVars>>

InitRules ==
    /\ rulesTable = {}
    /\ categories = CategoryIds
    /\ clock = 0
    /\ nextRuleId = 1
    /\ lastCall = NoCall
    /\ tokenRows = {}
    /\ now = 0
    /\ issued = 0
    /\ call = NoTokenCall
    /\ store = {}
    /\ durable = {}
    /\ inTxn = FALSE
    /\ imp = NoImport
    /\ lastUpsert = NoUpsert
    /\ InitLater

NextRules ==
    \/ \E p \in Patterns, c \in CategoryIds, pr \in Priorities :
           createCategorizationRule(p, c, pr)
    \/ \E id \in 1..MaxRuleId, u \in RuleUpdates : updateCategorizationRule(id, u)
    \/ \E id \in 1..MaxRuleId : deleteCategorizationRule(id)
    \/ Tick
    \/ \E tx \in Texts : Categorize(tx)

SpecRules == InitRules /\ [][NextRules]_vars

(***************************************************************************)
(* What the claims about categorize call a match, stated from the text of  *)
(* the claims and not through the operators above: an alternative is a     *)
(* maximal bar-free segment of the pattern; it counts when, cut down to    *)
(* its first and last non-blank character, it occurs in                    *)
(* description + " " + counterpartyName up to letter case.                 *)
(***************************************************************************)
SameLetter(c, d) ==
    \/ c = d
    \/ {c, d} = {"a", "A"}
    \/ {c, d} = {"b", "B"}

OccursIn(text, pat, a, b) ==
    \E off \in 0..(Len(text) - (b - a + 1)) :
        \A k \in 0..(b - a) : SameLetter(text[off + 1 + k], pat[a + k])

HasMatchingAlternative(rule, tx) ==
    LET pat == rule.pattern
        text == tx.description \o <<" ">> \o tx.counterpartyName
    IN  \E a, b \in 1..Len(pat) :
            /\ a <= b
            /\ \A k \in a..b : pat[k] # "|"
            /\ pat[a] # " " /\ pat[b] # " "
            /\ \A k \in 1..(a - 1) : (\A m \in k..(a - 1) : pat[m] # "|") => pat[k] = " "
            /\ \A k \in (b + 1)..Len(pat) : (\A m \in (b + 1)..k : pat[m] # "|") => pat[k] = " "
            /\ OccursIn(text, pat, a, b)

HasEmptyAlternative(rule) ==
    LET pat == rule.pattern
    IN  \E i \in 1..(Len(pat) + 1), j \in 0..Len(pat) :
            /\ j >= i - 1
            /\ i = 1 \/ pat[i - 1] = "|"
            /\ j = Len(pat) \/ pat[j + 1] = "|"
            /\ \A k \in i..j : pat[k] = " "

(* The active stored rules with a matching alternative for the last call. *)
Candidates ==
    {r \in rulesTable : r.active /\ HasMatchingAlternative(r, lastCall.tx)}

(* C8: two active rules match the same text, one with priority 10 and one
   with priority 1 (the priority-10 rule being the only matching rule of
   that priority): categorize returns the category of the priority-10 rule,
   whichever was created first and whatever order storage returned. *)
C8_RulePriorityOrdering ==
    lastCall.done =>
        \A hi, lo \in Candidates :
            ( /\ hi.priority = 10
              /\ lo.priority = 1
              /\ \A r \in Candidates : r.priority = 10 => r = hi )
            => lastCall.out = hi.category_id

C8_Witness ==
    /\ lastCall.done
    /\ \E hi, lo \in Candidates :
           /\ hi.priority = 10 /\ lo.priority = 1
           /\ hi.id > lo.id
           /\ hi.category_id # lo.category_id
           /\ \A r \in Candidates : r.priority = 10 => r = hi
           /\ lastCall.out = hi.category_id

(* C9: when several active rules of equal (highest) priority match the text,
   categorize returns the category of the one created earliest (the one with
   the smallest AUTOINCREMENT id). *)
C9_TieBreakByCreationOrder ==
    lastCall.done =>
        \A first \in Candidates :
            ( /\ \A r \in Candidates : r.priority <= first.priority
              /\ \A r \in Candidates : r.priority = first.priority => first.id <= r.id )
            => lastCall.out = first.category_id

(* C10: categorize returns null exactly when no active rule has a non-empty
   trimmed alternative that is a case-insensitive substring of
   description + " " + counterpartyName; otherwise it returns the category of
   such a rule. *)
C10_NullIffNoMatch ==
    lastCall.done =>
        /\ (lastCall.out = NoCategory) <=> (Candidates = {})
        /\ lastCall.out # NoCategory =>
               \E r \in Candidates : r.category_id = lastCall.out

C10_Witness ==
    /\ lastCall.done
    /\ lastCall.out = NoCategory
    /\ \E r \in rulesTable : ~r.active /\ HasMatchingAlternative(r, lastCall.tx)
    /\ \E r \in rulesTable : r.active /\ HasEmptyAlternative(r)

(***************************************************************************)
(* The token lifecycle: getAccessToken, refreshAccessToken, createNewToken *)
(* and the gocardless_tokens singleton. Tokens are numbered in the order   *)
(* the remote API issues them; 0 stands for a missing (null) token. Time   *)
(* is counted in minutes.                                                  *)
(***************************************************************************)
(* expiresAt >= now + 5 min: the boundary taken the other way. *)
TokenStillValidInclusive(expiresAt, t) == expiresAt >= t + TokenBuffer

(* expiresAt > new Date(now.getTime() + 5 * 60 * 1000) *)
TokenStillValid(expiresAt, t) == expiresAt > t + TokenBuffer

(* The row a refresh writes, taking the refresh token from the response,
   which carries none. *)
RefreshedRowFromResponse(access, refreshToken, expiresAt) ==
    [access_token |-> access, refresh_token |-> NoToken, expires_at |-> expiresAt]

(* refreshAccessToken: saveGoCardlessToken({accessToken: access,
   refreshToken: refreshToken, expiresAt}) *)
RefreshedRow(access, refreshToken, expiresAt) ==
    [access_token |-> access, refresh_token |-> refreshToken, expires_at |-> expiresAt]

(* saveGoCardlessToken: UPDATE the row with id 1 if there is one, else INSERT. *)
saveGoCardlessToken(row) == tokenRows' = {row}

(* The refresh error rethrown to the caller of getAccessToken. *)
RefreshFailureRaised == "failed"

(* catch (error) { log('Refresh failed, creating new token') }: control goes
   on to createNewToken. *)
RefreshFailureGoesTo == "creating"

(* getAccessToken is entered. *)
StartGetAccessToken ==
    /\ call.pc \in {"idle", "done", "failed"}
    /\ call' = [NoTokenCall EXCEPT !.pc = "reading"]
    /\ UNCHANGED <<tokenRows, now, issued>>
    /\ UNCHANGED <<rulesVars, importVars, applyVars, syncVars, adminVars, sideVars>>

(* getGoCardlessToken resolves and the branches of lines 41-62 are taken. *)
ReadStoredToken ==
    /\ call.pc = "reading"
    /\ LET found == tokenRows # {}
           tokenData == IF found THEN CHOOSE r \in tokenRows : TRUE ELSE NoRow
       IN  call' =
             IF found /\ tokenData.access_token # NoToken
             THEN IF TokenStillValid(tokenData.expires_at, now)
                  THEN [call EXCEPT !.pc = "done", !.found = TRUE, !.seen = tokenData,
                                    !.now0 = now, !.result = tokenData.access_token,
                                    !.from = "store"]
                  ELSE IF tokenData.refresh_token # NoToken
                  THEN [call EXCEPT !.pc = "refreshing", !.found = TRUE,
                                    !.seen = tokenData, !.now0 = now,
                                    !.requests = <<"refresh">>]
                  ELSE [call EXCEPT !.pc = "creating", !.found = TRUE,
                                    !.seen = tokenData, !.now0 = now,
                                    !.requests = <<"create">>]
             ELSE [call EXCEPT !.pc = "creating", !.found = found, !.seen = tokenData,
                               !.now0 = now, !.requests = <<"create">>]
    /\ UNCHANGED <<tokenRows, now, issued>>
    /\ UNCHANGED <<rulesVars, importVars, applyVars, syncVars, adminVars, sideVars>>

(* POST /token/refresh/ succeeds: refreshAccessToken saves and returns. *)
RefreshSucceeds(d) ==
    /\ call.pc = "refreshing"
    /\ issued < MaxIssued
    /\ LET access == issued + 1
           row == RefreshedRow(access, call.seen.refresh_token, now + d)
       IN  /\ saveGoCardlessToken(row)
           /\ call' = [call EXCEPT !.pc = "done", !.result = access, !.from = "refresh",
                                   !.writes = @ + 1,
                                   !.resp = [access_token |-> access,
                                             refresh_token |-> NoToken,
                                             expires_at |-> now + d]]
    /\ issued' = issued + 1
    /\ UNCHANGED now
    /\ UNCHANGED <<rulesVars, importVars, applyVars, syncVars, adminVars, sideVars>>

(* POST /token/refresh/ fails: caught in getAccessToken. *)
RefreshFails ==
    /\ call.pc = "refreshing"
    /\ call' = [call EXCEPT !.pc = RefreshFailureGoesTo, !.refreshFailed = TRUE,
                            !.requests = IF RefreshFailureGoesTo = "creating"
                                         THEN Append(@, "create") ELSE @]
    /\ UNCHANGED <<tokenRows, now, issued>>
    /\ UNCHANGED <<rulesVars, importVars, applyVars, syncVars, adminVars, sideVars>>

(* POST /token/new/ succeeds: createNewToken saves and returns. The response
   carries an access token, a refresh token (or none) and access_expires. *)
CreateSucceeds(d, withRefresh) ==
    /\ call.pc = "creating"
    /\ issued < MaxIssued
    /\ LET access == issued + 1
           row == [access_token |-> access,
                   refresh_token |-> IF withRefresh THEN access ELSE NoToken,
                   expires_at |-> now + d]
       IN  /\ saveGoCardlessToken(row)
           /\ call' = [call EXCEPT !.pc = "done", !.result = access, !.from = "create",
                                   !.writes = @ + 1, !.resp = row]
    /\ issued' = issued + 1
    /\ UNCHANGED now
    /\ UNCHANGED <<rulesVars, importVars, applyVars, syncVars, adminVars, sideVars>>

(* A failed exchange that empties the token table. *)
RowsCleared(rows) == {}

(* The catch of createNewToken logs and throws; it writes nothing. *)
RowsAfterCreateFailure(rows) == rows

(* POST /token/new/ fails: createNewToken throws, getAccessToken rethrows. *)
CreateFails ==
    /\ call.pc = "creating"
    /\ call' = [call EXCEPT !.pc = "failed"]
    /\ tokenRows' = RowsAfterCreateFailure(tokenRows)
    /\ UNCHANGED <<now, issued>>
    /\ UNCHANGED <<rulesVars, importVars, applyVars, syncVars, adminVars, sideVars>>

(* A minute passes. *)
TimePasses ==
    /\ now < MaxNow
    /\ now' = now + 1
    /\ UNCHANGED <<tokenRows, issued, call>>
    /\ UNCHANGED <<rulesVars, importVars, applyVars, syncVars, adminVars, sideVars>>

InitToken ==
    /\ tokenRows = {}
    /\ now = 0
    /\ issued = 0
    /\ call = NoTokenCall
    /\ store = {}
    /\ durable = {}
    /\ inTxn = FALSE
    /\ imp = NoImport
    /\ lastUpsert = NoUpsert
    /\ InitLater
    /\ rulesTable = {}
    /\ categories = CategoryIds
    /\ clock = 0
    /\ nextRuleId = 1
    /\ lastCall = NoCall

NextToken ==
    \/ StartGetAccessToken
    \/ ReadStoredToken
    \/ \E d \in Durations : RefreshSucceeds(d)
    \/ RefreshFails
    \/ \E d \in Durations, withRefresh \in BOOLEAN : CreateSucceeds(d, withRefresh)
    \/ CreateFails
    \/ TimePasses

SpecToken == InitToken /\ [][NextToken]_vars

(* Every awaited step of a call comes back: the read of the token table
   resolves, and a request to the remote API is answered or fails. *)
SpecTokenFair ==
    /\ SpecToken
    /\ WF_vars(ReadStoredToken)
    /\ WF_vars((\E d \in Durations : RefreshSucceeds(d)) \/ RefreshFails)
    /\ WF_vars((\E d \in Durations, withRefresh \in BOOLEAN : CreateSucceeds(d, withRefresh))
                  \/ CreateFails)

(***************************************************************************)
(* Claims about the token lifecycle, read off a finished call.             *)
(***************************************************************************)
CallFinished == call.pc \in {"done", "failed"}

FoundToken == call.found /\ call.seen.access_token # NoToken

Requested(kind) == \E i \in 1..Len(call.requests) : call.requests[i] = kind

(* C5: a stored token expiring strictly later than now + 5 minutes is
   returned as it is, with no token request and no write to the token store;
   a stored token expiring at or before now + 5 minutes is never returned as
   it is, and a refresh is requested when a refresh token is present. *)
C5_TokenReuseBoundary ==
    (CallFinished /\ FoundToken) =>
        /\ call.seen.expires_at > call.now0 + 5 =>
               /\ call.pc = "done"
               /\ call.from = "store"
               /\ call.result = call.seen.access_token
               /\ call.requests = <<>>
               /\ call.writes = 0
               /\ tokenRows = {call.seen}
        /\ call.seen.expires_at <= call.now0 + 5 =>
               /\ call.from # "store"
               /\ call.requests # <<>>
               /\ call.seen.refresh_token # NoToken => call.requests[1] = "refresh"

C5_Witness ==
    /\ call.pc = "done"
    /\ FoundToken
    /\ call.seen.expires_at = call.now0 + 5
    /\ call.seen.refresh_token # NoToken
    /\ call.requests = <<"refresh">>

(* C6: after a successful refresh of a token within the 5-minute buffer the
   store holds the newly issued access token, the refresh token it held
   before and the new expiry; getAccessToken returns the stored access token
   and no credential exchange is requested. *)
C6_SuccessfulRefresh ==
    (call.pc = "done" /\ call.from = "refresh") =>
        /\ call.seen.expires_at <= call.now0 + 5
        /\ tokenRows = {[access_token |-> call.resp.access_token,
                         refresh_token |-> call.seen.refresh_token,
                         expires_at |-> call.resp.expires_at]}
        /\ call.resp.access_token # call.seen.access_token
        /\ call.seen.refresh_token # NoToken
        /\ \A r \in tokenRows : call.result = r.access_token
        /\ ~Requested("create")

C6_Witness ==
    /\ call.pc = "done"
    /\ call.from = "refresh"
    /\ \E r \in tokenRows : r.access_token = call.result
                            /\ r.expires_at > call.seen.expires_at

(* C7: with no stored token, or a token within the buffer that has no refresh
   token, or a failed refresh, getAccessToken requests a credential exchange;
   when that succeeds the stored row is the exchange response as a whole and
   its access token is returned; the call fails only when the credential
   exchange itself failed. *)
C7_FallThroughToCreate ==
    CallFinished =>
        LET trigger ==
                \/ ~call.found
                \/ FoundToken /\ call.seen.expires_at <= call.now0 + 5
                              /\ call.seen.refresh_token = NoToken
                \/ call.refreshFailed
        IN  /\ trigger => Requested("create")
            /\ (trigger /\ call.pc = "done") =>
                   /\ call.from = "create"
                   /\ tokenRows = {call.resp}
                   /\ call.result = call.resp.access_token
            /\ call.pc = "failed" =>
                   call.requests[Len(call.requests)] = "create"

C7_Witness ==
    /\ call.pc = "done"
    /\ call.refreshFailed
    /\ call.from = "create"
    /\ tokenRows = {call.resp}
    /\ call.resp.refresh_token # call.seen.refresh_token
(***************************************************************************)
(* Statement import: the normaliser of DSK Bank statements.                *)
(* A statement is the sequence of AccountMovement elements the XML parser  *)
(* delivers; an element that is absent from a movement is the empty text.  *)
(***************************************************************************)
Digit == <<"0", "1", "2", "3", "4", "5", "6", "7", "8", "9">>

DigitValue(c) == CHOOSE d \in 0..9 : Digit[d + 1] = c

RECURSIVE digitsOf(_)
digitsOf(n) ==
    IF n < 10 THEN <<Digit[n + 1]>>
    ELSE digitsOf(n \div 10) \o <<Digit[(n % 10) + 1]>>

RECURSIVE valueOf(_)
valueOf(ds) ==
    IF ds = <<>> THEN 0
    ELSE 10 * valueOf(SubSeq(ds, 1, Len(ds) - 1)) + DigitValue(ds[Len(ds)])

Abs(n) == IF n < 0 THEN -n ELSE n

\* Number.prototype.toFixed(2) of an amount held in cents.
toFixed(cents) ==
    (IF cents < 0 THEN <<"-">> ELSE <<>>)
        \o digitsOf(Abs(cents) \div 100) \o <<".">>
        \o <<Digit[((Abs(cents) % 100) \div 10) + 1], Digit[(Abs(cents) % 10) + 1]>>

RECURSIVE padStart(_, _, _)
padStart(s, n, c) == IF Len(s) >= n THEN s ELSE padStart(<<c>> \o s, n, c)

\* DD.MM.YYYY to YYYY-MM-DD; a value that is not three dot-separated parts
\* is returned as it came.
convertDate(dateStr) ==
    IF dateStr = <<>> THEN NoDate
    ELSE LET parts == split(dateStr, ".")
         IN  IF Len(parts) # 3 THEN dateStr
             ELSE parts[3] \o <<"-">> \o padStart(parts[2], 2, "0")
                           \o <<"-">> \o padStart(parts[1], 2, "0")

RECURSIVE normalizeWhitespace(_)
normalizeWhitespace(s) ==
    IF Len(s) < 2 THEN s
    ELSE IF s[1] = " " /\ s[2] = " " THEN normalizeWhitespace(Tail(s))
    ELSE <<s[1]>> \o normalizeWhitespace(Tail(s))

\* The statements of this model carry no markup and no entities, so what
\* is left of cleanDescription is the whitespace normalisation and the trim.
cleanDescription(text) == trim(normalizeWhitespace(text))

\* parseFloat of a decimal numeral, in cents. The numerals of this model
\* have an optional sign and at most two decimals.
parseFloat(str) ==
    LET negative == str # <<>> /\ str[1] = "-"
        parts == split(IF negative THEN Tail(str) ELSE str, ".")
        frac == IF Len(parts) < 2 THEN <<>> ELSE parts[2]
        cents == 100 * valueOf(parts[1])
                   + (IF Len(frac) = 0 THEN 0
                      ELSE IF Len(frac) = 1 THEN 10 * valueOf(frac)
                      ELSE valueOf(SubSeq(frac, 1, 2)))
    IN  IF negative THEN -cents ELSE cents

\* "28,98" to 2898 cents: spaces removed, comma read as the decimal point.
parseAmount(amountStr) ==
    IF amountStr = <<>> THEN 0
    ELSE LET normalized == SelectSeq(amountStr, LAMBDA c : c # " ")
         IN  parseFloat([i \in 1..Len(normalized) |->
                           IF normalized[i] = "," THEN "." ELSE normalized[i]])

parseMovement(movement) ==
    LET transactionDate == convertDate(movement.ValueDate)
        rawAmount == parseAmount(movement.Amount)
    IN  [transactionDate  |-> transactionDate,
         bookingDate      |-> transactionDate,
         description      |-> cleanDescription(movement.Reason),
         amount           |-> IF movement.MovementType = "Debit"
                              THEN -Abs(rawAmount) ELSE Abs(rawAmount),
         counterpartyName |-> trim(movement.OppositeSideName),
         rawMovement      |-> movement]

\* The content hash is taken as injective: the id carries the hashed string.
generateTransactionId(transaction) ==
    <<"D", "S", "K", "_">>
        \o transaction.transactionDate \o <<"|">>
        \o transaction.description \o <<"|">>
        \o toFixed(transaction.amount) \o <<"|">>
        \o transaction.counterpartyName

\* 1.9558 leva for one euro, in ten-thousandths.
BGN_TO_EUR_RATE == 19558

\* parseFloat((amount / BGN_TO_EUR_RATE).toFixed(2)) on cents: the quotient
\* rounded to the nearest cent (no amount in cents lands on a half).
bgnToEur(cents) ==
    LET q == (Abs(cents) * 10000 + BGN_TO_EUR_RATE \div 2) \div BGN_TO_EUR_RATE
    IN  IF cents < 0 THEN -q ELSE q

processXmlForImport(statement, accountId, currency) ==
    [i \in 1..Len(statement) |->
        LET movement == parseMovement(statement[i])
        IN  [id               |-> generateTransactionId(movement),
             accountId        |-> accountId,
             transactionDate  |-> movement.transactionDate,
             bookingDate      |-> movement.bookingDate,
             amount           |-> IF currency = "BGN" THEN bgnToEur(movement.amount)
                                  ELSE movement.amount,
             currency         |-> "EUR",
             description      |-> movement.description,
             counterpartyName |-> movement.counterpartyName,
             categoryId       |-> NoCategory,
             rawData          |-> movement.rawMovement,
             originalAmount   |-> IF currency = "BGN" THEN movement.amount ELSE NoAmount,
             originalCurrency |-> IF currency = "BGN" THEN "BGN" ELSE NoText]]

(***************************************************************************)
(* The transactions table and upsertTransaction.                           *)
(***************************************************************************)
RowOf(st, id) == {r \in st : r.id = id}

InsertedRow(transaction) ==
    [id                |-> transaction.id,
     account_id        |-> transaction.accountId,
     transaction_date  |-> transaction.transactionDate,
     booking_date      |-> transaction.bookingDate,
     amount            |-> transaction.amount,
     currency          |-> transaction.currency,
     description       |-> transaction.description,
     counterparty_name |-> transaction.counterpartyName,
     category_id       |-> transaction.categoryId,
     raw_data          |-> transaction.rawData,
     original_amount   |-> transaction.originalAmount,
     original_currency |-> transaction.originalCurrency,
     notes             |-> NoText]

\* An UPDATE that also writes the incoming category.
UpdatedRowWithCategory(existing, transaction) ==
    [existing EXCEPT !.transaction_date  = transaction.transactionDate,
                     !.booking_date      = transaction.bookingDate,
                     !.amount            = transaction.amount,
                     !.currency          = transaction.currency,
                     !.description       = transaction.description,
                     !.counterparty_name = transaction.counterpartyName,
                     !.category_id       = transaction.categoryId,
                     !.raw_data          = transaction.rawData,
                     !.original_amount   = transaction.originalAmount,
                     !.original_currency = transaction.originalCurrency]

\* The columns the UPDATE sets; account_id, category_id and notes are not
\* among them.
UpdatedRow(existing, transaction) ==
    [existing EXCEPT !.transaction_date  = transaction.transactionDate,
                     !.booking_date      = transaction.bookingDate,
                     !.amount            = transaction.amount,
                     !.currency          = transaction.currency,
                     !.description       = transaction.description,
                     !.counterparty_name = transaction.counterpartyName,
                     !.raw_data          = transaction.rawData,
                     !.original_amount   = transaction.originalAmount,
                     !.original_currency = transaction.originalCurrency]

\* transaction_date is NOT NULL (account_id and amount are never null on
\* the paths modelled here); the failing statement changes nothing.
ViolatesNotNull(transaction) == transaction.transactionDate = NoDate

upsertTransaction(st, transaction) ==
    LET existing == RowOf(st, transaction.id)
    IN  IF ViolatesNotNull(transaction)
        THEN [ok |-> FALSE, isNew |-> FALSE, store |-> st]
        ELSE IF existing # {}
        THEN [ok |-> TRUE, isNew |-> FALSE,
              store |-> (st \ existing)
                           \cup {UpdatedRow(r, transaction) : r \in existing}]
        ELSE [ok |-> TRUE, isNew |-> TRUE,
              store |-> st \cup {InsertedRow(transaction)}]

\* Dates hold digits, dashes and dots; this is their order in ASCII.
DateChars == <<"-", ".", "0", "1", "2", "3", "4", "5", "6", "7", "8", "9">>

CharRank(c) == CHOOSE k \in 1..Len(DateChars) : DateChars[k] = c

RECURSIVE TextLess(_, _)
TextLess(a, b) ==
    IF b = <<>> THEN FALSE
    ELSE IF a = <<>> THEN TRUE
    ELSE IF a[1] = b[1] THEN TextLess(Tail(a), Tail(b))
    ELSE CharRank(a[1]) < CharRank(b[1])

\* The categories the query may return: ORDER BY transaction_date DESC
\* LIMIT 1 leaves the choice among rows of the latest date open.
getCategoryByCounterparty(st, counterpartyName) ==
    LET found == {r \in st : r.counterparty_name = counterpartyName
                             /\ r.category_id # NoCategory}
    IN  IF counterpartyName = <<>> \/ found = {} THEN {NoCategory}
        ELSE {r.category_id : r \in
                {r \in found : \A q \in found :
                    ~TextLess(r.transaction_date, q.transaction_date)}}

(***************************************************************************)
(* Inputs of the import machine.                                           *)
(***************************************************************************)
Accounts == { <<"a", "c", "c", "1">> }

\* The hint the route falls back to when the request names none.
CurrencyHints == {"BGN"}

mvA ==
    [ValueDate |-> <<"1", "5", ".", "3", ".", "2", "0", "2", "4">>,
     Reason |-> <<" ", "A">>, Amount |-> <<"2", "8", ",", "9", "8">>,
     MovementType |-> "Debit", OppositeSideName |-> <<>>]

mvB ==
    [ValueDate |-> <<"1", "6", ".", "0", "3", ".", "2", "0", "2", "4">>,
     Reason |-> <<"b">>, Amount |-> <<"1", "0", "0">>,
     MovementType |-> "Credit", OppositeSideName |-> <<"a", " ">>]

\* A movement without a ValueDate element.
mvNoDate ==
    [ValueDate |-> <<>>,
     Reason |-> <<"A">>, Amount |-> <<"5">>,
     MovementType |-> "Credit", OppositeSideName |-> <<>>]

AccountMovements == {mvA, mvB, mvNoDate}

Statements == UNION { [1..n -> AccountMovements] : n \in 1..MaxBatch }

\* Two versions of one booked remote transaction.
RemoteTransactions ==
    { [transactionId |-> <<"T", "1">>, internalTransactionId |-> <<>>,
       bookingDate |-> <<"2", "0", "2", "4", "-", "0", "3", "-", "1", "0">>,
       valueDate |-> <<>>,
       transactionAmount |-> [amount |-> <<"-", "5", ".", "0", "0">>, currency |-> "EUR"],
       remittanceInformationUnstructured |-> <<"A">>,
       additionalInformation |-> <<>>, creditorName |-> <<>>],
      [transactionId |-> <<"T", "1">>, internalTransactionId |-> <<>>,
       bookingDate |-> <<"2", "0", "2", "4", "-", "0", "3", "-", "1", "0">>,
       valueDate |-> <<"2", "0", "2", "4", "-", "0", "3", "-", "1", "1">>,
       transactionAmount |-> [amount |-> <<"7", ".", "0", "0">>, currency |-> "USD"],
       remittanceInformationUnstructured |-> <<>>,
       additionalInformation |-> <<"b">>, creditorName |-> <<"a">>] }

\* What a user sets by hand.
EditedCategoryIds == {2}
EditedNotes == {"x"}

\* The one rule of the import machine: "B" among blank alternatives.
ImportRule ==
    [id |-> 1, pattern |-> <<" ", "|", "B", " ">>, category_id |-> 1,
     priority |-> 10, active |-> TRUE, created_at |-> 0]

(***************************************************************************)
(* POST /api/transactions/import-xml and importTransactionsBatch.          *)
(***************************************************************************)
\* Lines 285-303 of the route: rules first, counterparty history second;
\* a record for which neither yields a category keeps none.
CategoryChoices(tx, st) ==
    UNION { IF c # NoCategory THEN {c}
            ELSE IF tx.counterpartyName # <<>>
                 THEN getCategoryByCounterparty(st, tx.counterpartyName)
                 ELSE {NoCategory}
            : c \in { categorizeTransaction(rows,
                          [description |-> tx.description,
                           counterpartyName |-> tx.counterpartyName])
                      : rows \in getAllCategorizationRules(rulesTable, categories) } }

Categorized(batch, st) ==
    { [i \in 1..Len(batch) |-> [batch[i] EXCEPT !.categoryId = f[i]]]
      : f \in { g \in [1..Len(batch) -> CategoryIds \cup {NoCategory}]
                : \A i \in 1..Len(batch) : g[i] \in CategoryChoices(batch[i], st) } }

\* No request is in progress: the program runs one request at a time.
Sequential == imp.pc = "idle" /\ ~inTxn /\ ~lastUpsert.done

\* The route up to and including BEGIN TRANSACTION.
importXml(statement, accountId, currency, round) ==
    /\ ~inTxn
    /\ \E batch \in Categorized(processXmlForImport(statement, accountId, currency), store) :
          imp' = [pc |-> "upserting", statement |-> statement,
                  accountId |-> accountId, currency |-> currency,
                  batch |-> batch, i |-> 1, results |-> NoResults,
                  log |-> <<[op |-> "BEGIN", id |-> <<>>, outcome |-> "ok"]>>,
                  startStore |-> store,
                  fresh |-> \A k \in 1..Len(batch) : RowOf(store, batch[k].id) = {},
                  round |-> round,
                  prevResults |-> IF round = 2 THEN imp.results ELSE NoResults,
                  prevFresh |-> IF round = 2 THEN imp.fresh ELSE FALSE,
                  commitFailed |-> FALSE, raised |-> FALSE]
    /\ inTxn' = TRUE
    /\ lastUpsert' = NoUpsert
    /\ UNCHANGED <<store, durable, rulesVars, tokenVars, applyVars, syncVars, adminVars, sideVars>>

StartImport ==
    /\ Sequential
    /\ \E statement \in Statements, accountId \in Accounts, currency \in CurrencyHints :
          importXml(statement, accountId, currency, 1)

\* The same request again, right after the first one returned.
ReImport ==
    /\ imp.pc = "done" /\ imp.round = 1
    /\ importXml(imp.statement, imp.accountId, imp.currency, 2)

\* A loop that an error of record i makes leave the remaining records.
AbortAfterError(i, n) == n + 1

\* The catch inside the loop: the error of record i is recorded and the
\* loop goes on with the record after it.
NextAfterError(i, n) == i + 1

\* Every upsert that did not fail counted as an import.
CountsEveryUpsert(out) == TRUE

\* if (result.isNew): the record counts as imported, else as skipped.
CountsAsImported(out) == out.isNew

\* One pass of the for loop.
UpsertNext ==
    /\ imp.pc = "upserting" /\ imp.i <= Len(imp.batch)
    /\ LET tx == imp.batch[imp.i]
           n == Len(imp.batch)
           out == upsertTransaction(store, tx)
           next == IF out.ok THEN imp.i + 1 ELSE NextAfterError(imp.i, n)
           results ==
               IF ~out.ok
               THEN [imp.results EXCEPT !.errors =
                        Append(@, [transaction |-> tx.id, error |-> "constraint"])]
               ELSE IF CountsAsImported(out) THEN [imp.results EXCEPT !.imported = @ + 1]
               ELSE [imp.results EXCEPT !.skipped = @ + 1]
       IN  /\ store' = out.store
           /\ imp' = [imp EXCEPT
                  !.i = next,
                  !.results = results,
                  !.log = Append(@, [op |-> "UPSERT", id |-> tx.id,
                                     outcome |-> IF ~out.ok THEN "error"
                                                 ELSE IF out.isNew THEN "inserted"
                                                 ELSE "updated"]),
                  !.pc = IF next > n THEN "committing" ELSE "upserting"]
           /\ lastUpsert' = [done |-> TRUE, ok |-> out.ok, via |-> "import",
                             tx |-> tx, before |-> RowOf(store, tx.id)]
    /\ UNCHANGED <<durable, inTxn, rulesVars, tokenVars, applyVars, syncVars, adminVars, sideVars>>

CommitSucceeds ==
    /\ imp.pc = "committing"
    /\ durable' = store
    /\ inTxn' = FALSE
    /\ imp' = [imp EXCEPT !.pc = "done",
                          !.log = Append(@, [op |-> "COMMIT", id |-> <<>>, outcome |-> "ok"])]
    /\ UNCHANGED <<store, lastUpsert, rulesVars, tokenVars, applyVars, syncVars, adminVars, sideVars>>

\* A failed COMMIT with no ROLLBACK after it.
CommitFailureRaised == "failed"

\* The outer catch.
CommitFailureGoesTo == "rollback"

CommitFails ==
    /\ imp.pc = "committing"
    /\ imp' = [imp EXCEPT !.pc = CommitFailureGoesTo,
                          !.commitFailed = TRUE,
                          !.raised = (CommitFailureGoesTo = "failed"),
                          !.log = Append(@, [op |-> "COMMIT", id |-> <<>>, outcome |-> "error"])]
    /\ UNCHANGED <<store, durable, inTxn, lastUpsert, rulesVars, tokenVars, applyVars, syncVars, adminVars, sideVars>>

\* ROLLBACK, then the error is thrown on to the route.
Rollback ==
    /\ imp.pc = "rollback"
    /\ store' = durable
    /\ inTxn' = FALSE
    /\ imp' = [imp EXCEPT !.pc = "failed", !.raised = TRUE,
                          !.log = Append(@, [op |-> "ROLLBACK", id |-> <<>>, outcome |-> "ok"])]
    /\ lastUpsert' = NoUpsert
    /\ UNCHANGED <<durable, rulesVars, tokenVars, applyVars, syncVars, adminVars, sideVars>>

(***************************************************************************)
(* Remote sync of one booked transaction, and the local edits.             *)
(***************************************************************************)
\* BGN_TO_EUR_RATE of the remote path: 1.95583 leva for one euro, in
\* hundred-thousandths.
GC_BGN_TO_EUR_RATE == 195583

\* amount / 1.95583 for leva, unrounded; the amount as it came for the euro
\* and for every other currency. The leva amounts of this model are those
\* whose quotient is a whole number of cents: the multiples of the rate.
convertToEur(amount, currency) ==
    CASE currency = "EUR" -> amount
      [] currency = "BGN" /\ amount % GC_BGN_TO_EUR_RATE = 0 ->
            (amount \div GC_BGN_TO_EUR_RATE) * 100000
      [] currency # "BGN" -> amount

remoteTransaction(tx, accountId) ==
    LET originalAmount == parseFloat(tx.transactionAmount.amount)
        originalCurrency == tx.transactionAmount.currency
    IN  [id               |-> IF tx.transactionId # <<>> THEN tx.transactionId
                              ELSE IF tx.internalTransactionId # <<>>
                              THEN tx.internalTransactionId
                              ELSE accountId \o <<"-">> \o tx.bookingDate
                                             \o <<"-">> \o tx.transactionAmount.amount,
         accountId        |-> accountId,
         transactionDate  |-> IF tx.valueDate # <<>> THEN tx.valueDate ELSE tx.bookingDate,
         bookingDate      |-> tx.bookingDate,
         amount           |-> convertToEur(originalAmount, originalCurrency),
         currency         |-> "EUR",
         description      |-> IF tx.remittanceInformationUnstructured # <<>>
                              THEN tx.remittanceInformationUnstructured
                              ELSE tx.additionalInformation,
         counterpartyName |-> tx.creditorName,
         categoryId       |-> NoCategory,
         rawData          |-> tx,
         originalAmount   |-> IF originalCurrency # "EUR" THEN originalAmount ELSE NoAmount,
         originalCurrency |-> IF originalCurrency # "EUR" THEN originalCurrency ELSE NoText]

\* One pass of the loop of syncAccountTransactions: build, categorize, upsert.
SyncTransaction(tx, accountId) ==
    /\ Sequential
    /\ \E rows \in getAllCategorizationRules(rulesTable, categories) :
          LET built == remoteTransaction(tx, accountId)
              transaction == [built EXCEPT !.categoryId = categorizeTransaction(rows, built)]
              out == upsertTransaction(store, transaction)
          IN  /\ store' = out.store
              /\ durable' = out.store
              /\ lastUpsert' = [done |-> TRUE, ok |-> out.ok, via |-> "sync",
                                tx |-> transaction, before |-> RowOf(store, transaction.id)]
    /\ UNCHANGED imp
    /\ UNCHANGED <<inTxn, rulesVars, tokenVars, applyVars, syncVars, adminVars, sideVars>>

updateTransactionCategory(id, categoryId) ==
    /\ Sequential
    /\ RowOf(store, id) # {}
    /\ store' = {IF r.id = id THEN [r EXCEPT !.category_id = categoryId] ELSE r : r \in store}
    /\ durable' = store'
    /\ UNCHANGED <<inTxn, imp, lastUpsert, rulesVars, tokenVars, applyVars, syncVars, adminVars, sideVars>>

updateTransactionNotes(id, notes) ==
    /\ Sequential
    /\ RowOf(store, id) # {}
    /\ store' = {IF r.id = id THEN [r EXCEPT !.notes = notes] ELSE r : r \in store}
    /\ durable' = store'
    /\ UNCHANGED <<inTxn, imp, lastUpsert, rulesVars, tokenVars, applyVars, syncVars, adminVars, sideVars>>

\* The request in progress answers its caller.
Respond ==
    /\ imp.pc \in {"done", "failed"} \/ (imp.pc = "idle" /\ lastUpsert.done)
    /\ imp' = NoImport
    /\ lastUpsert' = NoUpsert
    /\ UNCHANGED <<store, durable, inTxn, rulesVars, tokenVars, applyVars, syncVars, adminVars, sideVars>>

InitImport ==
    /\ rulesTable = {ImportRule}
    /\ categories = CategoryIds
    /\ clock = 0
    /\ nextRuleId = 2
    /\ lastCall = NoCall
    /\ tokenRows = {}
    /\ now = 0
    /\ issued = 0
    /\ call = NoTokenCall
    /\ store = {}
    /\ durable = {}
    /\ inTxn = FALSE
    /\ imp = NoImport
    /\ lastUpsert = NoUpsert
    /\ InitLater

NextImport ==
    \/ StartImport
    \/ ReImport
    \/ UpsertNext
    \/ CommitSucceeds
    \/ CommitFails
    \/ Rollback
    \/ Respond
    \/ \E tx \in RemoteTransactions, accountId \in Accounts : SyncTransaction(tx, accountId)
    \/ \E r \in store, categoryId \in EditedCategoryIds : updateTransactionCategory(r.id, categoryId)
    \/ \E r \in store, notes \in EditedNotes : updateTransactionNotes(r.id, notes)

SpecImport == InitImport /\ [][NextImport]_vars

(***************************************************************************)
(* Properties of the import machine.                                       *)
(***************************************************************************)
\* Every movement of the statement carries a date of three dot-separated
\* parts; nothing is asked of the other movements of the statement.
WellFormed(statement) ==
    \A k \in 1..Len(statement) : Len(split(statement[k].ValueDate, ".")) = 3

BatchSize == Len(imp.batch)

\* Record k of the running batch was attempted and its upsert raised.
FailedPersistence(k) ==
    k + 1 <= Len(imp.log) /\ imp.log[k + 1].op = "UPSERT"
                          /\ imp.log[k + 1].outcome = "error"

\* The ids of the records other than k are not in the store the batch met
\* and differ from each other.
OthersAreNew(k) ==
    /\ \A j \in 1..BatchSize \ {k} : RowOf(imp.startStore, imp.batch[j].id) = {}
    /\ \A j1, j2 \in 1..BatchSize \ {k} :
          j1 # j2 => imp.batch[j1].id # imp.batch[j2].id

\* C1 (idempotent ingestion): when an import of a well-formed statement of
\* N movements has returned, then if the store held none of the batch's ids
\* when it started it reports imported = N and skipped = 0, and if it is the
\* immediate repetition of such an import it reports imported = 0 and
\* skipped = N and the store is as it was before the repetition.
C1_IdempotentIngestion ==
    (imp.pc = "done" /\ WellFormed(imp.statement)) =>
        /\ imp.fresh =>
              imp.results.imported = BatchSize /\ imp.results.skipped = 0
        /\ (imp.round = 2 /\ imp.prevFresh) =>
              /\ imp.results.imported = 0
              /\ imp.results.skipped = BatchSize
              /\ store = imp.startStore

C3_PartialBatchResilience ==
    imp.pc = "done" =>
        \A k \in 1..BatchSize :
            ( /\ FailedPersistence(k)
              /\ \A j \in 1..BatchSize \ {k} : ~FailedPersistence(j)
              /\ OthersAreNew(k) )
            =>
            /\ imp.results.imported = BatchSize - 1
            /\ Len(imp.results.errors) = 1
            /\ imp.results.errors[1].transaction = imp.batch[k].id
            /\ Len(imp.log) = BatchSize + 2
            /\ \A j \in 1..BatchSize :
                  imp.log[j + 1].op = "UPSERT" /\ imp.log[j + 1].id = imp.batch[j].id
            /\ \A j \in 1..BatchSize \ {k} :
                  \E r \in durable :
                      /\ r.id = imp.batch[j].id
                      /\ r.description = imp.batch[j].description
                      /\ r.amount = imp.batch[j].amount

\* The first record of a longer batch failed and the batch returned.
C3_Witness ==
    /\ imp.pc = "done" /\ BatchSize >= 2
    /\ FailedPersistence(1)
    /\ \A j \in 2..BatchSize : ~FailedPersistence(j)
    /\ OthersAreNew(1)

\* C4 (batch transaction protocol): the statements of a run are BEGIN, one
\* upsert per record in batch order, one COMMIT, and a ROLLBACK only after
\* a COMMIT that failed; a run that returned ends with its COMMIT, however
\* many records failed; a run that failed ends with the ROLLBACK, has raised
\* its error, has closed the transaction and has left the store as the
\* batch met it.
C4_BatchTransactionProtocol ==
    /\ imp.pc # "idle" =>
          /\ Len(imp.log) >= 1 /\ Len(imp.log) <= BatchSize + 3
          /\ \A e \in 1..Len(imp.log) :
                /\ e = 1 => imp.log[e].op = "BEGIN"
                /\ (e > 1 /\ e <= BatchSize + 1) =>
                      imp.log[e].op = "UPSERT" /\ imp.log[e].id = imp.batch[e - 1].id
                /\ e = BatchSize + 2 => imp.log[e].op = "COMMIT"
                /\ e = BatchSize + 3 =>
                      imp.log[e].op = "ROLLBACK" /\ imp.log[e - 1].outcome = "error"
    /\ imp.pc = "done" =>
          Len(imp.log) = BatchSize + 2 /\ imp.log[BatchSize + 2].outcome = "ok"
    /\ imp.pc = "failed" =>
          /\ Len(imp.log) = BatchSize + 3
          /\ imp.raised
          /\ ~inTxn
          /\ store = imp.startStore
          /\ durable = imp.startStore

\* A batch with an inserted record and a failed record whose COMMIT failed.
C4_Witness ==
    /\ imp.pc = "failed"
    /\ imp.results.imported > 0
    /\ imp.results.errors # <<>>

(***************************************************************************)
(* Manual entries and the bulk operation applyRulesToUncategorized.        *)
(***************************************************************************)
\* What POST /api/transactions accepts: a date and an amount are required.
\* An absent description or counterparty is stored as NULL, which every
\* reader below treats as it treats the empty text.
ManualEntries ==
    { [transactionDate |-> <<"2", "4", "-", "0", "3", "-", "1", "0">>, amount |-> -500,
       description |-> <<"x">>, counterpartyName |-> <<"a">>, categoryId |-> NoCategory],
      [transactionDate |-> <<"2", "4", "-", "0", "3", "-", "1", "1">>, amount |-> -700,
       description |-> <<"x">>, counterpartyName |-> <<"a">>, categoryId |-> 2],
      [transactionDate |-> <<"2", "4", "-", "0", "3", "-", "1", "0">>, amount |-> 900,
       description |-> <<"b">>, counterpartyName |-> <<>>, categoryId |-> NoCategory],
      [transactionDate |-> <<"2", "4", "-", "0", "3", "-", "1", "1">>, amount |-> 100,
       description |-> <<"x">>, counterpartyName |-> <<>>, categoryId |-> NoCategory] }

ManualRows(st) == {r \in st : r.account_id = CASH}

\* `CASH_${Date.now()}_${random}`: an id no stored row has.
ManualId(st) == <<"C", "A", "S", "H", "_">> \o digitsOf(Cardinality(ManualRows(st)) + 1)

createManualTransaction(transaction) ==
    /\ imp.pc = "idle" /\ ~inTxn /\ bulk.pc = "idle"
    /\ Cardinality(ManualRows(store)) < MaxManual
    /\ store' = store \cup
          { [id                |-> ManualId(store),
             account_id        |-> CASH,
             transaction_date  |-> transaction.transactionDate,
             booking_date      |-> transaction.transactionDate,
             amount            |-> transaction.amount,
             currency          |-> "EUR",
             description       |-> transaction.description,
             counterparty_name |-> transaction.counterpartyName,
             category_id       |-> transaction.categoryId,
             raw_data          |-> [type |-> "manual"],
             original_amount   |-> NoAmount,
             original_currency |-> NoText,
             notes             |-> NoText] }
    /\ durable' = store'
    /\ UNCHANGED <<inTxn, imp, lastUpsert, rulesVars, tokenVars, applyVars, syncVars, adminVars, sideVars>>

\* The arrays getTransactions may return for { categoryId: 'uncategorized',
\* limit }: the rows without a category, latest transaction_date first, cut
\* after `limit` rows. Rows of one date come in the order of created_at,
\* which the model does not keep: any order among them.
getTransactions(st, filters) ==
    LET found == {r \in st : filters.categoryId = "uncategorized" => r.category_id = NoCategory}
        n == Cardinality(found)
        ordered == {q \in [1..n -> found] :
                      /\ \A i, j \in 1..n : i # j => q[i] # q[j]
                      /\ \A i, j \in 1..n : i < j =>
                            ~TextLess(q[i].transaction_date, q[j].transaction_date)}
    IN  {SubSeq(q, 1, IF n < filters.limit THEN n ELSE filters.limit) : q \in ordered}

\* categorizeTransaction is handed the stored row. It reads description and
\* counterpartyName; the row has counterparty_name, so the second reads as
\* undefined and joins as the empty text.
RowAsTransaction(row) == [description |-> row.description, counterpartyName |-> <<>>]

\* `limit: 10000` of the bulk operation.
UncategorizedLimit == 10000

\* The operation up to the end of its getTransactions call; round tells a
\* first run from one that follows a run at once.
loadUncategorized(limit, round) ==
    /\ \E loaded \in getTransactions(store, [categoryId |-> "uncategorized",
                                             limit |-> limit]) :
          bulk' = [pc |-> IF Len(loaded) = 0 THEN "done" ELSE "running",
                   loaded |-> loaded, i |-> 1,
                   totalUncategorized |-> Len(loaded), categorizedCount |-> 0,
                   startStore |-> store, step |-> [done |-> FALSE], round |-> round]
    /\ UNCHANGED <<importVars, rulesVars, tokenVars, syncVars, adminVars, sideVars>>

applyRulesToUncategorized_load(limit) ==
    /\ imp.pc = "idle" /\ ~inTxn /\ bulk.pc = "idle"
    /\ loadUncategorized(limit, 1)

\* The operation is run again as soon as its first run has returned.
applyRulesToUncategorized_again ==
    /\ bulk.pc = "done" /\ bulk.round = 1
    /\ loadUncategorized(UncategorizedLimit, 2)

\* One pass of the for loop: rules, then counterparty history, then the
\* UPDATE when either gave a category.
\* A counter that goes up for every loaded row.
CountEveryRow(count, categoryId) == count + 1

\* categorizedCount++ sits inside `if (categoryId)`.
CountAfter(count, categoryId) == IF categoryId = NoCategory THEN count ELSE count + 1

applyRulesToUncategorized_step ==
    /\ bulk.pc = "running"
    /\ LET transaction == bulk.loaded[bulk.i]
       IN  \E rows \in getAllCategorizationRules(rulesTable, categories) :
           LET fromRules == categorizeTransaction(rows, RowAsTransaction(transaction))
           IN  \E categoryId \in
                     (IF fromRules = NoCategory /\ transaction.counterparty_name # <<>>
                      THEN getCategoryByCounterparty(store, transaction.counterparty_name)
                      ELSE {fromRules}) :
                 /\ store' = IF categoryId = NoCategory THEN store
                             ELSE {IF r.id = transaction.id
                                   THEN [r EXCEPT !.category_id = categoryId] ELSE r
                                   : r \in store}
                 /\ durable' = store'
                 /\ bulk' = [bulk EXCEPT
                        !.i = @ + 1,
                        !.pc = IF bulk.i + 1 > Len(bulk.loaded) THEN "done" ELSE "running",
                        !.categorizedCount = CountAfter(@, categoryId),
                        !.step = [done |-> TRUE, transaction |-> transaction,
                                  before |-> store, fromRules |-> fromRules,
                                  categoryId |-> categoryId]]
    /\ UNCHANGED <<inTxn, imp, lastUpsert, rulesVars, tokenVars, syncVars, adminVars, sideVars>>

\* POST /api/categorization-rules/apply answers with the two counts.
applyRulesToUncategorized_return ==
    /\ bulk.pc = "done"
    /\ bulk' = NoBulk
    /\ UNCHANGED <<importVars, rulesVars, tokenVars, syncVars, adminVars, sideVars>>

\* The rules of the bulk machine: one that can only match through the
\* counterparty, one that matches through the description.
ApplyRules ==
    { [id |-> 1, pattern |-> <<"a">>, category_id |-> 1,
       priority |-> 10, active |-> TRUE, created_at |-> 0],
      [id |-> 2, pattern |-> <<" ", "|", "B", " ">>, category_id |-> 1,
       priority |-> 1, active |-> TRUE, created_at |-> 1] }

InitApply ==
    /\ rulesTable = ApplyRules
    /\ categories = CategoryIds
    /\ clock = 1
    /\ nextRuleId = 3
    /\ lastCall = NoCall
    /\ tokenRows = {}
    /\ now = 0
    /\ issued = 0
    /\ call = NoTokenCall
    /\ store = {}
    /\ durable = {}
    /\ inTxn = FALSE
    /\ imp = NoImport
    /\ lastUpsert = NoUpsert
    /\ InitLater

NextApply ==
    \/ \E transaction \in ManualEntries : createManualTransaction(transaction)
    \/ applyRulesToUncategorized_load(UncategorizedLimit)
    \/ applyRulesToUncategorized_step
    \/ applyRulesToUncategorized_return

SpecApply == InitApply /\ [][NextApply]_vars

\* The same machine with the limit of the load brought down to the scale of
\* its stores, which hold one uncategorized row more than ScaledLimit; the
\* program is in that position with 10001 uncategorized rows.
NextApplyScaled ==
    \/ \E transaction \in ManualEntries : createManualTransaction(transaction)
    \/ applyRulesToUncategorized_load(ScaledLimit)
    \/ applyRulesToUncategorized_step
    \/ applyRulesToUncategorized_return

SpecApplyScaled == InitApply /\ [][NextApplyScaled]_vars

(***************************************************************************)
(* Properties of the bulk operation. What counts as a matching rule is     *)
(* stated as for categorize: over the description and the counterparty     *)
(* name of the transaction.                                                *)
(***************************************************************************)
MatchingRules(row) ==
    {r \in rulesTable :
        r.active /\ HasMatchingAlternative(r, [description |-> row.description,
                                               counterpartyName |-> row.counterparty_name])}

\* The stored transactions of a counterparty that have a category, and those
\* of them with the latest date.
History(st, name) == {r \in st : r.counterparty_name = name /\ r.category_id # NoCategory}

Latest(rows) == {r \in rows : \A q \in rows : ~TextLess(r.transaction_date, q.transaction_date)}

Uncategorized(st) == {r \in st : r.category_id = NoCategory}

\* C11 (counterparty-history fallback): for the row the bulk operation has
\* just handled: if no rule matches it and its counterparty has categorized
\* transactions, it gets the category of one with the latest date; if no
\* rule matches and there is no such transaction, it stays uncategorized;
\* if a rule matches it, a category it gets is the category of a matching
\* rule, never one taken from history.
C11_CounterpartyHistoryFallback ==
    bulk.step.done =>
        LET t == bulk.step.transaction
            matching == MatchingRules(t)
            history == History(bulk.step.before, t.counterparty_name)
        IN  /\ (matching = {} /\ t.counterparty_name # <<>> /\ history # {}) =>
                  bulk.step.categoryId \in {r.category_id : r \in Latest(history)}
            /\ (matching = {} /\ (t.counterparty_name = <<>> \/ history = {})) =>
                  bulk.step.categoryId = NoCategory
            /\ (matching # {} /\ bulk.step.categoryId # NoCategory) =>
                  bulk.step.categoryId \in {r.category_id : r \in matching}

\* C12 (the bulk operation loads every uncategorized transaction): once the
\* operation has loaded its rows, totalUncategorized is the number of
\* transactions that had no category when it started, and when it is done
\* each of them has been handled.
C12_LoadsEveryUncategorized ==
    /\ bulk.pc # "idle" =>
          bulk.totalUncategorized = Cardinality(Uncategorized(bulk.startStore))
    /\ bulk.pc = "done" =>
          {bulk.loaded[j].id : j \in 1..Len(bulk.loaded)}
              = {r.id : r \in Uncategorized(bulk.startStore)}

\* The transactions the running operation took from no category to one.
NewlyCategorized ==
    {r \in Uncategorized(bulk.startStore) :
        \E q \in store : q.id = r.id /\ q.category_id # NoCategory}

\* C13 (the bulk operation persists only resolved categories): while the
\* operation runs and when it is done, categorizedCount is the number of
\* transactions it took from no category to a category and is at most
\* totalUncategorized, every transaction that had a category when it started
\* is stored unchanged, and every other transaction is stored with at most
\* its category changed; no row was added or removed.
C13_PersistsOnlyResolved ==
    bulk.pc # "idle" =>
        /\ bulk.categorizedCount = Cardinality(NewlyCategorized)
        /\ bulk.categorizedCount <= bulk.totalUncategorized
        /\ \A r \in bulk.startStore : r.category_id # NoCategory => r \in store
        /\ \A r \in bulk.startStore :
              \E q \in store : q = [r EXCEPT !.category_id = q.category_id]
        /\ Cardinality(store) = Cardinality(bulk.startStore)

\* A finished run over a store with a categorized transaction, in which
\* some rows were resolved and some were not.
C13_Witness ==
    /\ bulk.pc = "done"
    /\ bulk.categorizedCount >= 1
    /\ bulk.categorizedCount < bulk.totalUncategorized
    /\ \E r \in bulk.startStore : r.category_id # NoCategory

(***************************************************************************)
(* Remote sync: syncAllAccounts.                                           *)
(* The remote side is an input: what it lists, what it answers and which   *)
(* of its answers fail. Whether a token can be had is fixed for one run.   *)
(***************************************************************************)
Requisitions ==
    { [id |-> "r1", status |-> "LN", accounts |-> << <<"A", "1">>, <<"A", "3">> >>],
      [id |-> "r2", status |-> "EX", accounts |-> << <<"A", "2">> >>],
      [id |-> "r3", status |-> "LN", accounts |-> <<>>] }

RequisitionLists == UNION { [1..n -> Requisitions] : n \in 0..MaxRequisitions }

\* What details and balances answer for an account: amounts in EUR.
RemoteAccountData ==
    { [name |-> "main", currency |-> "EUR", amount |-> <<"1", "2", ".", "5", "0">>] }

\* Linked, with at least one account.
ListsAnyAccount(req) == Len(req.accounts) > 0

IsEligible(req) == req.status = "LN" /\ Len(req.accounts) > 0

upsertAccount(table, account) ==
    IF \E row \in table : row.id = account.id
    THEN {IF row.id = account.id
          THEN [row EXCEPT !.name = account.name, !.currency = account.currency,
                           !.balance = account.balance, !.last_synced = TRUE]
          ELSE row : row \in table}
    ELSE table \cup {[id |-> account.id, name |-> account.name,
                      currency |-> account.currency, balance |-> account.balance,
                      last_synced |-> TRUE]}

NoRemoteWork == imp.pc = "idle" /\ ~inTxn /\ bulk.pc = "idle" /\ sync.pc = "idle"

\* syncAllAccounts up to the end of listRequisitions, which answers with
\* the empty list when the token or the request fails.
syncAllAccounts_list(listed, credentials, answered) ==
    /\ NoRemoteWork
    /\ LET requisitions == IF credentials /\ answered THEN listed ELSE <<>>
       IN  sync' = [NoSync EXCEPT
               !.pc = "accounts",
               !.kind = "accounts",
               !.credentials = credentials,
               !.requisitions = requisitions,
               !.requests = IF credentials
                            THEN <<[op |-> "requisitions", id |-> <<>>]>>
                            ELSE <<>>,
               !.startAccounts = accounts,
               !.startStore = store]
    /\ UNCHANGED <<accounts, importVars, rulesVars, tokenVars, applyVars, adminVars, sideVars>>

\* A requisition that is passed over.
syncAllAccounts_skip ==
    /\ sync.pc = "accounts"
    /\ sync.r <= Len(sync.requisitions)
    /\ ~IsEligible(sync.requisitions[sync.r])
    /\ sync' = [sync EXCEPT !.r = @ + 1, !.a = 1]
    /\ UNCHANGED <<accounts, importVars, rulesVars, tokenVars, applyVars, adminVars, sideVars>>

\* One account of a linked requisition: details, balances, upsertAccount.
\* A failing request is logged and the loop goes on.
syncAllAccounts_account(failing, data) ==
    /\ sync.pc = "accounts"
    /\ sync.r <= Len(sync.requisitions)
    /\ IsEligible(sync.requisitions[sync.r])
    /\ LET req == sync.requisitions[sync.r]
           accountId == req.accounts[sync.a]
           asked == IF failing = "details"
                    THEN <<[op |-> "details", id |-> accountId]>>
                    ELSE <<[op |-> "details", id |-> accountId],
                           [op |-> "balances", id |-> accountId]>>
           account == [id |-> accountId, name |-> data.name, currency |-> "EUR",
                       balance |-> convertToEur(parseFloat(data.amount), data.currency)]
           last == sync.a = Len(req.accounts)
       IN  /\ accounts' = IF failing = "none" THEN upsertAccount(accounts, account)
                          ELSE accounts
           /\ sync' = [sync EXCEPT
                  !.requests = @ \o asked,
                  !.syncedAccounts = IF failing = "none" THEN Append(@, accountId) ELSE @,
                  !.r = IF last THEN @ + 1 ELSE @,
                  !.a = IF last THEN 1 ELSE @ + 1]
    /\ UNCHANGED <<importVars, rulesVars, tokenVars, applyVars, adminVars, sideVars>>

\* The list is exhausted: syncedAccounts is returned.
syncAllAccounts_return ==
    /\ sync.pc = "accounts"
    /\ sync.r > Len(sync.requisitions)
    /\ sync' = [sync EXCEPT !.pc = "done"]
    /\ UNCHANGED <<accounts, importVars, rulesVars, tokenVars, applyVars, adminVars, sideVars>>

\* The route answers.
SyncResponds ==
    /\ sync.pc \in {"done", "failed"}
    /\ sync' = NoSync
    /\ UNCHANGED <<accounts, importVars, rulesVars, tokenVars, applyVars, adminVars, sideVars>>

(***************************************************************************)
(* Remote sync: POST /api/sync/transactions and syncAccountTransactions.   *)
(***************************************************************************)
\* A third booked transaction, with an id of its own.
BookedT2 ==
    [transactionId |-> <<"T", "2">>, internalTransactionId |-> <<>>,
     bookingDate |-> <<"2", "0", "2", "4", "-", "0", "3", "-", "1", "2">>,
     valueDate |-> <<>>,
     transactionAmount |-> [amount |-> <<"3", ".", "0", "0">>, currency |-> "EUR"],
     remittanceInformationUnstructured |-> <<"B">>,
     additionalInformation |-> <<>>, creditorName |-> <<>>]

\* A booked transaction without any date: its upsert is refused.
BookedNoDate ==
    [transactionId |-> <<"T", "3">>, internalTransactionId |-> <<>>,
     bookingDate |-> <<>>, valueDate |-> <<>>,
     transactionAmount |-> [amount |-> <<"3", ".", "0", "0">>, currency |-> "EUR"],
     remittanceInformationUnstructured |-> <<"B">>,
     additionalInformation |-> <<>>, creditorName |-> <<>>]

\* What the remote side may answer as the booked transactions of a window.
BookedWindows ==
    {<<>>, <<BookedT2>>, <<BookedNoDate, BookedT2>>}
        \cup {<<tx>> : tx \in RemoteTransactions}

\* Line 416: every upsert that did not throw is counted.
SyncedCountAfter(count, out) == IF out.ok THEN count + 1 ELSE count

\* The loop of syncAccountTransactions over the booked transactions: the
\* stores and counts it may end with.
RECURSIVE syncBooked(_, _, _, _)
syncBooked(st, booked, accountId, syncedCount) ==
    IF booked = <<>> THEN {[store |-> st, syncedCount |-> syncedCount]}
    ELSE UNION
           { LET built == remoteTransaction(Head(booked), accountId)
                 transaction == [built EXCEPT
                                    !.categoryId = categorizeTransaction(rows, built)]
                 out == upsertTransaction(st, transaction)
             IN  syncBooked(out.store, Tail(booked), accountId,
                            SyncedCountAfter(syncedCount, out))
             : rows \in getAllCategorizationRules(rulesTable, categories) }

\* getAllAccounts: ORDER BY created_at DESC, a column the model does not
\* keep: any order of the rows.
getAllAccounts(table) ==
    {q \in [1..Cardinality(table) -> table] :
        \A i, j \in 1..Cardinality(table) : i # j => q[i] # q[j]}

\* A loop that passes over no account.
SkipsNoAccount(account) == FALSE

\* Line 117 of the route.
SkipsAccount(account) == account.id = CASH

\* The route up to the loop.
syncTransactions_start(credentials) ==
    /\ NoRemoteWork
    /\ \E order \in getAllAccounts(accounts) :
          sync' = [NoSync EXCEPT
              !.pc = "transactions",
              !.kind = "transactions",
              !.credentials = credentials,
              !.order = order,
              !.startAccounts = accounts,
              !.startStore = store]
    /\ UNCHANGED <<accounts, importVars, rulesVars, tokenVars, applyVars, adminVars, sideVars>>

\* `continue` for the account of the manual transactions.
syncTransactions_skip ==
    /\ sync.pc = "transactions"
    /\ sync.k <= Len(sync.order)
    /\ SkipsAccount(sync.order[sync.k])
    /\ sync' = [sync EXCEPT !.k = @ + 1]
    /\ UNCHANGED <<accounts, importVars, rulesVars, tokenVars, applyVars, adminVars, sideVars>>

\* Where the loop goes after syncAccountTransactions threw.
AccountFailureRaised == "failed"

AccountFailureGoesTo == "transactions"

\* One account of the loop: syncAccountTransactions(account.id) and the
\* entry pushed to byAccount. Without a token, or with a failing request,
\* getTransactions throws before any transaction is processed.
syncTransactions_account(answered, booked) ==
    /\ sync.pc = "transactions"
    /\ sync.k <= Len(sync.order)
    /\ ~SkipsAccount(sync.order[sync.k])
    /\ LET account == sync.order[sync.k]
           threw == ~sync.credentials \/ ~answered
           asked == IF sync.credentials
                    THEN <<[op |-> "transactions", id |-> account.id]>>
                    ELSE <<>>
       IN  IF threw
           THEN /\ sync' = [sync EXCEPT
                       !.pc = AccountFailureGoesTo,
                       !.raised = AccountFailureGoesTo = "failed",
                       !.requests = @ \o asked,
                       !.k = @ + 1,
                       !.byAccount = Append(@,
                           [accountId |-> account.id, accountName |-> account.name,
                            count |-> 0, error |-> TRUE,
                            fetched |-> <<>>, before |-> store, after |-> store])]
                /\ UNCHANGED <<store, durable>>
           ELSE \E out \in syncBooked(store, booked, account.id, 0) :
                /\ store' = out.store
                /\ durable' = out.store
                /\ sync' = [sync EXCEPT
                       !.requests = @ \o asked,
                       !.k = @ + 1,
                       !.totalSynced = @ + out.syncedCount,
                       !.byAccount = Append(@,
                           [accountId |-> account.id, accountName |-> account.name,
                            count |-> out.syncedCount, error |-> FALSE,
                            fetched |-> booked, before |-> store, after |-> out.store])]
    /\ UNCHANGED <<accounts, inTxn, imp, lastUpsert, rulesVars, tokenVars, applyVars, adminVars, sideVars>>

\* res.json({ success: true, transactionsSynced: totalSynced, byAccount }).
syncTransactions_return ==
    /\ sync.pc = "transactions"
    /\ sync.k > Len(sync.order)
    /\ sync' = [sync EXCEPT !.pc = "done"]
    /\ UNCHANGED <<accounts, importVars, rulesVars, tokenVars, applyVars, adminVars, sideVars>>

\* A transaction entered by hand before any sync.
CashRow ==
    [id                |-> <<"C", "A", "S", "H", "_", "1">>,
     account_id        |-> CASH,
     transaction_date  |-> <<"2", "4", "-", "0", "3", "-", "1", "0">>,
     booking_date      |-> <<"2", "4", "-", "0", "3", "-", "1", "0">>,
     amount            |-> -500,
     currency          |-> "EUR",
     description       |-> <<"x">>,
     counterparty_name |-> <<"a">>,
     category_id       |-> NoCategory,
     raw_data          |-> [type |-> "manual"],
     original_amount   |-> NoAmount,
     original_currency |-> NoText,
     notes             |-> NoText]

InitSync ==
    /\ rulesTable = {ImportRule}
    /\ categories = CategoryIds
    /\ clock = 0
    /\ nextRuleId = 2
    /\ lastCall = NoCall
    /\ tokenRows = {}
    /\ now = 0
    /\ issued = 0
    /\ call = NoTokenCall
    /\ store = {CashRow}
    /\ durable = {CashRow}
    /\ inTxn = FALSE
    /\ imp = NoImport
    /\ lastUpsert = NoUpsert
    /\ InitLater

NextSync ==
    \/ \E listed \in RequisitionLists, credentials \in BOOLEAN, answered \in BOOLEAN :
          syncAllAccounts_list(listed, credentials, answered)
    \/ syncAllAccounts_skip
    \/ \E failing \in {"none", "details", "balances"}, data \in RemoteAccountData :
          syncAllAccounts_account(failing, data)
    \/ syncAllAccounts_return
    \/ \E credentials \in BOOLEAN : syncTransactions_start(credentials)
    \/ syncTransactions_skip
    \/ \E answered \in BOOLEAN, booked \in BookedWindows :
          syncTransactions_account(answered, booked)
    \/ syncTransactions_return
    \/ SyncResponds

SpecSync == InitSync /\ [][NextSync]_vars

(***************************************************************************)
(* Claims about the remote sync.                                           *)
(***************************************************************************)
Linked(req) == req.status = "LN" /\ req.accounts # <<>>

LinkedAccountIds(reqs) ==
    UNION { {reqs[i].accounts[j] : j \in 1..Len(reqs[i].accounts)}
            : i \in {n \in 1..Len(reqs) : Linked(reqs[n])} }

AskedFor(op, id) ==
    \E n \in 1..Len(sync.requests) : sync.requests[n] = [op |-> op, id |-> id]

\* C14: syncAllAccounts asks the remote side for details and balances, and
\* writes account rows, only for the accounts listed by requisitions whose
\* status is LN and which list at least one account. A requisition in any
\* other status, or listing no account, causes no request, no write and no
\* error, and the requisitions after it are still processed: when the run
\* ends, the details of every account of every linked requisition have
\* been asked for.
C14_AccountSyncEligibility ==
    sync.kind = "accounts" =>
        /\ \A n \in 1..Len(sync.requests) :
              sync.requests[n].op \in {"details", "balances"}
                  => sync.requests[n].id \in LinkedAccountIds(sync.requisitions)
        /\ \A row \in accounts \ sync.startAccounts :
              row.id \in LinkedAccountIds(sync.requisitions)
        /\ \A row \in sync.startAccounts :
              row.id \notin LinkedAccountIds(sync.requisitions) => row \in accounts
        /\ store = sync.startStore
        /\ ~sync.raised /\ sync.pc # "failed"
        /\ sync.pc = "done" =>
              \A id \in LinkedAccountIds(sync.requisitions) : AskedFor("details", id)

\* A finished run whose list holds a requisition that is not linked before
\* one that is, and an account of the latter was written.
C14_Witness ==
    /\ sync.kind = "accounts" /\ sync.pc = "done"
    /\ \E i, j \in 1..Len(sync.requisitions) :
          /\ i < j
          /\ ~Linked(sync.requisitions[i])
          /\ Len(sync.requisitions[i].accounts) > 0
          /\ Linked(sync.requisitions[j])
          /\ \E row \in accounts \ sync.startAccounts :
                row.id = sync.requisitions[j].accounts[1]

\* C15: when no token can be had during a run, the run ends with an error
\* raised to its caller and nothing written: syncAllAccounts raises to its
\* route, and every call of syncAccountTransactions raises to the loop of
\* the transactions route; account rows and transactions are as they were
\* when the run began.
C15_CredentialFailureIsFatal ==
    (sync.pc \in {"done", "failed"} /\ ~sync.credentials) =>
        /\ accounts = sync.startAccounts
        /\ store = sync.startStore
        /\ sync.kind = "accounts" => sync.raised
        /\ sync.kind = "transactions" =>
              \A n \in 1..Len(sync.byAccount) : sync.byAccount[n].error

RECURSIVE SumOfCounts(_)
SumOfCounts(entries) ==
    IF entries = <<>> THEN 0
    ELSE Head(entries).count + SumOfCounts(Tail(entries))

\* The accounts of the run that are not the account of the manual
\* transactions, in the order of the run.
RemoteOrder == SelectSeq(sync.order, LAMBDA account : account.id # CASH)

\* C16: in the transactions route a failure of one account does not end the
\* run. When the run answers there is exactly one entry per account that is
\* not the CASH account, in the order of the accounts; the entry of an
\* account whose sync threw has a count of 0 and an error; the accounts
\* after it are still synced, their entries holding what their own sync
\* returned; the total is the sum of the counts, and the answer is a
\* success.
C16_PerAccountFailureIsolation ==
    /\ sync.kind = "transactions" => ~sync.raised /\ sync.pc # "failed"
    /\ (sync.kind = "transactions" /\ sync.pc = "done") =>
          /\ Len(sync.byAccount) = Len(RemoteOrder)
          /\ \A n \in 1..Len(sync.byAccount) :
                LET entry == sync.byAccount[n]
                IN  /\ entry.accountId = RemoteOrder[n].id
                    /\ entry.error => entry.count = 0 /\ entry.after = entry.before
                    /\ ~entry.error =>
                          [store |-> entry.after, syncedCount |-> entry.count]
                              \in syncBooked(entry.before, entry.fetched, entry.accountId, 0)
          /\ sync.totalSynced = SumOfCounts(sync.byAccount)

\* A finished run in which the first account failed and the second one
\* stored a transaction.
C16_Witness ==
    /\ sync.kind = "transactions" /\ sync.pc = "done"
    /\ Len(sync.byAccount) = 2
    /\ sync.byAccount[1].error
    /\ ~sync.byAccount[2].error
    /\ sync.byAccount[2].count = 1
    /\ sync.byAccount[2].after # sync.byAccount[2].before
    /\ sync.totalSynced = 1

IdsOf(st) == {row.id : row \in st}

\* C17: the count syncAccountTransactions returns is the number of
\* transactions it newly imported: the ids stored after the call that were
\* not stored before it. Syncing again a window whose transactions are all
\* stored returns 0.
C17_CountIsNewlyImported ==
    sync.kind = "transactions" =>
        \A n \in 1..Len(sync.byAccount) :
            LET entry == sync.byAccount[n]
            IN  ~entry.error =>
                    entry.count = Cardinality(IdsOf(entry.after) \ IdsOf(entry.before))

\* C18: the CASH account takes no part in the remote sync. During and after
\* every sync run no remote request names CASH, no entry of the result is
\* for CASH, the CASH account row is as it was when the run began, and so
\* are the transactions of the CASH account.
C18_CashExemptFromSync ==
    sync.kind # "none" =>
        /\ \A n \in 1..Len(sync.requests) : sync.requests[n].id # CASH
        /\ \A n \in 1..Len(sync.byAccount) : sync.byAccount[n].accountId # CASH
        /\ \A n \in 1..Len(sync.syncedAccounts) : sync.syncedAccounts[n] # CASH
        /\ {row \in accounts : row.id = CASH} = {CashAccount}
        /\ {row \in sync.startAccounts : row.id = CASH} = {CashAccount}
        /\ ManualRows(store) = ManualRows(sync.startStore)
        /\ ManualRows(store) = {CashRow}

\* A finished transactions run that met the CASH account before a remote
\* account whose transactions it stored.
C18_Witness ==
    /\ sync.kind = "transactions" /\ sync.pc = "done"
    /\ \E i, j \in 1..Len(sync.order) :
          /\ i < j
          /\ sync.order[i].id = CASH
          /\ sync.order[j].id # CASH
    /\ Len(sync.byAccount) > 0
    /\ sync.byAccount[Len(sync.byAccount)].count > 0
    /\ store # sync.startStore

(***************************************************************************)
(* Categories and imports as the routes see them: DELETE                   *)
(* /api/categories/:id and the validation of the import routes.            *)
(***************************************************************************)
\* Ids a DELETE may name: the categories and one that does not exist.
DeletableIds == CategoryIds \cup {3}

\* Manual entries with each category and with none.
AdminEntries ==
    { [transactionDate |-> <<"2", "4", "-", "0", "3", "-", "1", "0">>, amount |-> -500,
       description |-> <<"x">>, counterpartyName |-> <<"a">>, categoryId |-> c]
      : c \in CategoryIds \cup {NoCategory} }

AdminRules ==
    ApplyRules \cup
        { [id |-> 3, pattern |-> <<"x">>, category_id |-> 2,
           priority |-> 5, active |-> TRUE, created_at |-> 1] }

\* No request is being answered.
Quiet ==
    /\ imp.pc = "idle" /\ ~inTxn /\ ~lastUpsert.done
    /\ bulk.pc = "idle" /\ sync.pc = "idle"
    /\ ~lastDelete.done /\ ~lastRequest.done

\* A delete that leaves the rules alone.
RulesKept(table, id) == table

\* DELETE FROM categorization_rules WHERE category_id = ?
RulesAfterDelete(table, id) == {r \in table : r.category_id # id}

\* The three statements of deleteCategory, in their order.
deleteCategory(id) ==
    /\ Quiet
    /\ store' = {IF r.category_id = id THEN [r EXCEPT !.category_id = NoCategory] ELSE r
                 : r \in store}
    /\ durable' = store'
    /\ rulesTable' = RulesAfterDelete(rulesTable, id)
    /\ categories' = categories \ {id}
    /\ lastDelete' = [done |-> TRUE, id |-> id, store |-> store,
                      rulesTable |-> rulesTable, categories |-> categories]
    /\ UNCHANGED <<clock, nextRuleId, lastCall, inTxn, imp, lastUpsert, lastRequest, sideVars>>
    /\ UNCHANGED <<tokenVars, applyVars, syncVars>>

\* The route has answered.
AdminResponds ==
    /\ lastDelete.done \/ lastRequest.done
    /\ lastDelete' = NoDelete
    /\ lastRequest' = NoRequest
    /\ UNCHANGED <<rulesVars, tokenVars, importVars, applyVars, syncVars, sideVars>>

\* The account statements are imported into.
StatementAccount ==
    [id |-> <<"a", "c", "c", "1">>, name |-> "main", currency |-> "EUR",
     balance |-> 0, last_synced |-> TRUE]

InitAdmin ==
    /\ rulesTable = AdminRules
    /\ categories = CategoryIds
    /\ clock = 1
    /\ nextRuleId = 4
    /\ lastCall = NoCall
    /\ tokenRows = {}
    /\ now = 0
    /\ issued = 0
    /\ call = NoTokenCall
    /\ store = {}
    /\ durable = {}
    /\ inTxn = FALSE
    /\ imp = NoImport
    /\ lastUpsert = NoUpsert
    /\ bulk = NoBulk
    /\ accounts = {CashAccount, StatementAccount}
    /\ sync = NoSync
    /\ lastDelete = NoDelete
    /\ lastRequest = NoRequest
    /\ norm = NoNorm
    /\ other = NoOther
    /\ pair = NoPair

NextAdmin ==
    \/ \E transaction \in AdminEntries : Quiet /\ createManualTransaction(transaction)
    \/ \E id \in DeletableIds : deleteCategory(id)
    \/ AdminResponds

SpecAdmin == InitAdmin /\ [][NextAdmin]_vars

\* C19: when deleteCategory(id) has completed, no stored transaction has
\* the category id, no rule names it and the category is gone; the
\* transactions that had it differ from what they were only in having no
\* category, and the transactions, rules and categories that named another
\* category are as they were.
C19_CategoryDeleteCascade ==
    lastDelete.done =>
        LET id == lastDelete.id
        IN  /\ \A r \in store : r.category_id # id
            /\ \A r \in rulesTable : r.category_id # id
            /\ id \notin categories
            /\ store = {r \in lastDelete.store : r.category_id # id}
                         \cup {[r EXCEPT !.category_id = NoCategory]
                               : r \in {q \in lastDelete.store : q.category_id = id}}
            /\ rulesTable = {r \in lastDelete.rulesTable : r.category_id # id}
            /\ categories = lastDelete.categories \ {id}

\* A delete of a category that a transaction and a rule named, next to a
\* transaction and a rule of another category.
C19_Witness ==
    /\ lastDelete.done
    /\ lastDelete.id \in lastDelete.categories
    /\ \E r \in lastDelete.store : r.category_id = lastDelete.id
    /\ \E r \in lastDelete.rulesTable : r.category_id = lastDelete.id
    /\ \E r \in store : r.category_id \notin {NoCategory, lastDelete.id}
    /\ rulesTable # {}

(***************************************************************************)
(* The delimited-text normaliser. Its input here is the array of rows that *)
(* parseCSV hands on: every row an array of trimmed cells, blank lines     *)
(* left out. The headers and cells of this model are in Latin letters, so  *)
(* the Cyrillic names of the alias lists can match none of them and are    *)
(* not listed.                                                             *)
(***************************************************************************)
LowChar(c) ==
    CASE c = "A" -> "a"
      [] c = "B" -> "b"
      [] c = "C" -> "c"
      [] c = "D" -> "d"
      [] c = "E" -> "e"
      [] c = "F" -> "f"
      [] c = "G" -> "g"
      [] c = "H" -> "h"
      [] c = "I" -> "i"
      [] c = "J" -> "j"
      [] c = "K" -> "k"
      [] c = "L" -> "l"
      [] c = "M" -> "m"
      [] c = "N" -> "n"
      [] c = "O" -> "o"
      [] c = "P" -> "p"
      [] c = "Q" -> "q"
      [] c = "R" -> "r"
      [] c = "S" -> "s"
      [] c = "T" -> "t"
      [] c = "U" -> "u"
      [] c = "V" -> "v"
      [] c = "W" -> "w"
      [] c = "X" -> "x"
      [] c = "Y" -> "y"
      [] c = "Z" -> "z"
      [] OTHER -> c

toLowerCase(s) == [i \in 1..Len(s) |-> LowChar(s[i])]

\* header.findIndex(h => h.includes(name)), from 1; 0 for -1.
findIndex(header, name) ==
    LET at == {i \in 1..Len(header) : includes(header[i], name)}
    IN  IF at = {} THEN 0 ELSE SetMin(at)

\* The first name of the list that some header cell includes decides.
RECURSIVE findColumn(_, _)
findColumn(header, names) ==
    IF names = <<>> THEN 0
    ELSE IF findIndex(header, toLowerCase(Head(names))) # 0
         THEN findIndex(header, toLowerCase(Head(names)))
         ELSE findColumn(header, Tail(names))

columnMapOf(header) ==
    [type          |-> findColumn(header, <<<<"t", "y", "p", "e">>>>),
     product       |-> findColumn(header, <<<<"p", "r", "o", "d", "u", "c", "t">>>>),
     startDate     |-> findColumn(header, <<<<"s", "t", "a", "r", "t", "e", "d", " ", "d", "a", "t", "e">>, <<"s", "t", "a", "r", "t", " ", "d", "a", "t", "e">>>>),
     completedDate |-> findColumn(header, <<<<"c", "o", "m", "p", "l", "e", "t", "e", "d", " ", "d", "a", "t", "e">>, <<"c", "o", "m", "p", "l", "e", "t", "i", "o", "n", " ", "d", "a", "t", "e">>>>),
     description   |-> findColumn(header, <<<<"d", "e", "s", "c", "r", "i", "p", "t", "i", "o", "n">>>>),
     amount        |-> findColumn(header, <<<<"a", "m", "o", "u", "n", "t">>>>),
     fee           |-> findColumn(header, <<<<"f", "e", "e">>>>),
     currency      |-> findColumn(header, <<<<"c", "u", "r", "r", "e", "n", "c", "y">>>>),
     state         |-> findColumn(header, <<<<"s", "t", "a", "t", "e">>, <<"s", "t", "a", "t", "u", "s">>>>),
     balance       |-> findColumn(header, <<<<"b", "a", "l", "a", "n", "c", "e">>>>)]

\* row[index], the empty text standing for undefined as well.
CellAt(row, index) == IF index >= 1 /\ index <= Len(row) THEN row[index] ELSE <<>>

IsDigit(c) == c \in {"0", "1", "2", "3", "4", "5", "6", "7", "8", "9"}

\* /^\d{4}-\d{2}-\d{2}$/
IsIsoDate(s) ==
    /\ Len(s) = 10
    /\ \A i \in {1, 2, 3, 4, 6, 7, 9, 10} : IsDigit(s[i])
    /\ s[5] = "-" /\ s[8] = "-"

\* The dates of this model are ISO dates, with or without a time, or texts
\* that new Date() does not read either.
parseRevolutDate(dateStr) ==
    IF dateStr = <<>> THEN NoDate
    ELSE LET datePart == split(trim(dateStr), " ")[1]
         IN  IF IsIsoDate(datePart) THEN datePart ELSE NoDate

\* Spaces out, commas to dots, and every dot but the last one dropped.
parseRevolutAmount(amountStr) ==
    IF amountStr = <<>> THEN 0
    ELSE LET spaceless == SelectSeq(amountStr, LAMBDA c : c # " ")
             dotted == [i \in 1..Len(spaceless) |->
                           IF spaceless[i] = "," THEN "." ELSE spaceless[i]]
             dots == {i \in 1..Len(dotted) : dotted[i] = "."}
             normalized == IF Cardinality(dots) > 1
                           THEN SelectSeq([j \in 1..Len(dotted) |->
                                              IF j \in dots /\ j # SetMax(dots)
                                              THEN " " ELSE dotted[j]],
                                          LAMBDA c : c # " ")
                           ELSE dotted
         IN  parseFloat(normalized)

\* The leading phrases that are taken off a description, in their order.
CleanPatterns ==
    << <<"C", "a", "r", "d", " ", "p", "a", "y", "m", "e", "n", "t", " ", "t", "o", " ">>,
       <<"P", "a", "y", "m", "e", "n", "t", " ", "t", "o", " ">>,
       <<"T", "r", "a", "n", "s", "f", "e", "r", " ", "t", "o", " ">>,
       <<"T", "r", "a", "n", "s", "f", "e", "r", " ", "f", "r", "o", "m", " ">>,
       <<"F", "r", "o", "m", " ">>,
       <<"T", "o", " ">> >>

RECURSIVE stripPatterns(_, _)
stripPatterns(text, patterns) ==
    IF patterns = <<>> THEN text
    ELSE LET p == Head(patterns)
             hit == Len(text) >= Len(p)
                      /\ toLowerCase(SubSeq(text, 1, Len(p))) = toLowerCase(p)
         IN  stripPatterns(IF hit THEN SubSeq(text, Len(p) + 1, Len(text)) ELSE text,
                           Tail(patterns))

extractCounterpartyFromDescription(description) ==
    IF description = <<>> THEN <<>>
    ELSE trim(stripPatterns(trim(description), CleanPatterns))

\* parseRevolutRow: the transaction of a row, or none (null) for a row
\* without a readable completed date or with an amount of zero.
NoTransaction == [none |-> TRUE]

parseRevolutRow(row, columnMap) ==
    LET completedDateStr == CellAt(row, columnMap.completedDate)
        startDateStr == CellAt(row, columnMap.startDate)
        description == CellAt(row, columnMap.description)
        amountStr == IF columnMap.amount # 0 THEN CellAt(row, columnMap.amount) ELSE <<"0">>
        currency == IF columnMap.currency # 0 THEN CellAt(row, columnMap.currency)
                    ELSE <<"E", "U", "R">>
        transactionDate == parseRevolutDate(completedDateStr)
        bookingDate == IF parseRevolutDate(startDateStr) # NoDate
                       THEN parseRevolutDate(startDateStr) ELSE transactionDate
        amount == parseRevolutAmount(amountStr)
        \* description.trim() and currency.toUpperCase() throw on a cell the
        \* row does not have; the loop logs the row and goes on.
        threw == \/ columnMap.description > Len(row)
                 \/ columnMap.currency > Len(row)
    IN  IF transactionDate = NoDate THEN NoTransaction
        ELSE IF amount = 0 THEN NoTransaction
        ELSE IF threw THEN NoTransaction
        ELSE [none             |-> FALSE,
              transactionDate  |-> transactionDate,
              bookingDate      |-> bookingDate,
              description      |-> trim(description),
              amount           |-> amount,
              currency         |-> toUpperCase(currency),
              counterpartyName |-> extractCounterpartyFromDescription(description),
              rawRow           |-> row]

\* The state cell of a row that is let through: empty, or "completed".
IsCompleted(state) == state = <<>> \/ state = <<"c", "o", "m", "p", "l", "e", "t", "e", "d">>

\* The rows after the header that become transactions, in their order.
RECURSIVE parseRows(_, _, _)
parseRows(rows, columnMap, i) ==
    IF i > Len(rows) THEN <<>>
    ELSE LET row == rows[i]
             rest == parseRows(rows, columnMap, i + 1)
         IN  IF Len(row) < 3 \/ CellAt(row, columnMap.amount) = <<>> THEN rest
             ELSE IF columnMap.state # 0
                       /\ ~IsCompleted(trim(toLowerCase(CellAt(row, columnMap.state))))
                  THEN rest
             ELSE IF parseRevolutRow(row, columnMap).none THEN rest
             ELSE <<parseRevolutRow(row, columnMap)>> \o rest

\* Lines 107-115: the two throws.
validateColumns(columnMap) ==
    IF columnMap.completedDate = 0 /\ columnMap.startDate = 0 THEN "no date column"
    ELSE IF columnMap.amount = 0 THEN "no amount column"
    ELSE "ok"

\* parseRevolutCsv: fewer than two rows give no transactions before the
\* header is looked at.
parseRevolutCsv(rows) ==
    IF Len(rows) < 2 THEN [threw |-> FALSE, error |-> "ok", transactions |-> <<>>]
    ELSE LET header == [i \in 1..Len(rows[1]) |-> trim(toLowerCase(rows[1][i]))]
             columnMap == columnMapOf(header)
         IN  IF validateColumns(columnMap) # "ok"
             THEN [threw |-> TRUE, error |-> validateColumns(columnMap),
                   transactions |-> <<>>]
             ELSE [threw |-> FALSE, error |-> "ok",
                   transactions |-> parseRows(rows, columnMap, 2)]

RECURSIVE joinCells(_, _)
joinCells(row, sep) ==
    IF row = <<>> THEN <<>>
    ELSE IF Len(row) = 1 THEN row[1]
    ELSE row[1] \o <<sep>> \o joinCells(Tail(row), sep)

\* An id taken from the first three cells only.
generateRowIdOfThree(row) == <<"R", "E", "V", "_">> \o joinCells(SubSeq(row, 1, 3), "|")

\* The id of a row, the content hash taken as injective.
generateRowId(row) == <<"R", "E", "V", "_">> \o joinCells(row, "|")

\* Units of the currency for one euro, in ten-thousandths; 0 for a currency
\* the table does not hold.
CurrencyRate(currency) ==
    CASE currency = <<"B", "G", "N">> -> 19558
      [] currency = <<"E", "U", "R">> -> 10000
      [] currency = <<"U", "S", "D">> -> 10800
      [] currency = <<"G", "B", "P">> -> 8500
      [] currency = <<"R", "O", "N">> -> 49700
      [] currency = <<"P", "L", "N">> -> 43200
      [] currency = <<"C", "H", "F">> -> 9400
      [] currency = <<"C", "Z", "K">> -> 250000
      [] currency = <<"H", "U", "F">> -> 3950000
      [] currency = <<"T", "R", "Y">> -> 350000
      [] OTHER -> 0

\* parseFloat((amount / rate).toFixed(2)) on cents.
divideByRate(cents, rate) ==
    LET q == (Abs(cents) * 10000 + rate \div 2) \div rate
    IN  IF cents < 0 THEN -q ELSE q

\* A currency as the store keeps it next to the original amount.
CurrencyName(currency) ==
    CASE currency = <<"B", "G", "N">> -> "BGN"
      [] currency = <<"U", "S", "D">> -> "USD"
      [] currency = <<"G", "B", "P">> -> "GBP"
      [] currency = <<"R", "O", "N">> -> "RON"
      [] currency = <<"P", "L", "N">> -> "PLN"
      [] currency = <<"C", "H", "F">> -> "CHF"
      [] currency = <<"C", "Z", "K">> -> "CZK"
      [] currency = <<"H", "U", "F">> -> "HUF"
      [] currency = <<"T", "R", "Y">> -> "TRY"
      [] OTHER -> "EUR"

processCsvForImport(rows, accountId) ==
    LET parsed == parseRevolutCsv(rows)
    IN  [threw |-> parsed.threw, error |-> parsed.error,
         transactions |->
            [i \in 1..Len(parsed.transactions) |->
                LET tx == parsed.transactions[i]
                    converts == tx.currency # <<"E", "U", "R">> /\ CurrencyRate(tx.currency) # 0
                IN  [id               |-> generateRowId(tx.rawRow),
                     accountId        |-> accountId,
                     transactionDate  |-> tx.transactionDate,
                     bookingDate      |-> tx.bookingDate,
                     amount           |-> IF converts
                                          THEN divideByRate(tx.amount, CurrencyRate(tx.currency))
                                          ELSE tx.amount,
                     currency         |-> "EUR",
                     description      |-> tx.description,
                     counterpartyName |-> tx.counterpartyName,
                     categoryId       |-> NoCategory,
                     rawData          |-> joinCells(tx.rawRow, ","),
                     originalAmount   |-> IF converts THEN tx.amount ELSE NoAmount,
                     originalCurrency |-> IF converts THEN CurrencyName(tx.currency)
                                          ELSE NoText]]]

(***************************************************************************)
(* The import routes from the request on: validation, normaliser, batch.   *)
(***************************************************************************)
UnknownAccountId == <<"n", "o", "n", "e">>

RequestAccountIds == Accounts \cup {<<>>, UnknownAccountId}

XmlBodies ==
    { [hasContent |-> h, statement |-> st, accountId |-> a, currency |-> c]
      : h \in BOOLEAN, st \in {<<>>, <<mvA>>, <<mvB>>}, a \in RequestAccountIds,
        c \in CurrencyHints }

HeaderFull == << <<"C", "o", "m", "p", "l", "e", "t", "e", "d", " ", "D", "a", "t", "e">>, <<"A", "m", "o", "u", "n", "t">>, <<"D", "e", "s", "c", "r", "i", "p", "t", "i", "o", "n">> >>
HeaderStartOnly == << <<"S", "t", "a", "r", "t", "e", "d", " ", "D", "a", "t", "e">>, <<"A", "m", "o", "u", "n", "t">>, <<"D", "e", "s", "c", "r", "i", "p", "t", "i", "o", "n">> >>
HeaderNoDate == << <<"T", "y", "p", "e">>, <<"A", "m", "o", "u", "n", "t">>, <<"D", "e", "s", "c", "r", "i", "p", "t", "i", "o", "n">> >>
HeaderNoAmount == << <<"C", "o", "m", "p", "l", "e", "t", "e", "d", " ", "D", "a", "t", "e">>, <<"T", "y", "p", "e">>, <<"D", "e", "s", "c", "r", "i", "p", "t", "i", "o", "n">> >>

CsvHeaders == {HeaderFull, HeaderStartOnly, HeaderNoDate, HeaderNoAmount}

CsvRowA == << <<"2", "0", "2", "4", "-", "0", "3", "-", "1", "0", " ", "1", "0", ":", "0", "0", ":", "0", "0">>, <<"-", "5", ".", "0", "0">>, <<"T", "o", " ", "a">> >>
CsvRowB == << <<"2", "0", "2", "4", "-", "0", "3", "-", "1", "1">>, <<"1", " ", "0", "0", "0", ",", "5", "0">>, <<"b">> >>

\* The rows of a file: none, a header alone, a header with rows.
CsvContents ==
    {<<>>} \cup {<<h>> : h \in CsvHeaders}
           \cup {<<h, CsvRowA>> : h \in CsvHeaders}
           \cup {<<HeaderFull, CsvRowA, CsvRowB>>}

CsvBodies ==
    { [hasContent |-> h, rows |-> rows, accountId |-> a]
      : h \in BOOLEAN, rows \in CsvContents, a \in RequestAccountIds }

getAccountById(table, id) == {row \in table : row.id = id}

\* return res.status(...).json(...): nothing but the answer.
Answer(route, status, body) ==
    /\ lastRequest' = [done |-> TRUE, route |-> route, status |-> status,
                       body |-> body, store |-> store]
    /\ UNCHANGED <<lastDelete, rulesVars, tokenVars, importVars, applyVars, syncVars, sideVars>>

\* Lines 257-268: the status the checks of the route end with, 0 when the
\* request passes them.
ValidationStatus(body) ==
    IF ~body.hasContent THEN 400
    ELSE IF body.accountId = <<>> THEN 400
    ELSE IF getAccountById(accounts, body.accountId) = {} THEN 404
    ELSE 0

\* POST /api/transactions/import-xml.
importXmlRoute(body) ==
    /\ Quiet
    /\ IF ValidationStatus(body) # 0
       THEN Answer("import-xml", ValidationStatus(body), body)
       ELSE IF Len(processXmlForImport(body.statement, body.accountId, body.currency)) = 0
       THEN Answer("import-xml", 200, body)
       ELSE importXml(body.statement, body.accountId, body.currency, 1)

\* The batch of the delimited-text route, begun as the one of the XML route.
importCsv(rows, accountId) ==
    /\ ~inTxn
    /\ \E batch \in Categorized(processCsvForImport(rows, accountId).transactions, store) :
          imp' = [pc |-> "upserting", statement |-> rows,
                  accountId |-> accountId, currency |-> "EUR",
                  batch |-> batch, i |-> 1, results |-> NoResults,
                  log |-> <<[op |-> "BEGIN", id |-> <<>>, outcome |-> "ok"]>>,
                  startStore |-> store,
                  fresh |-> \A k \in 1..Len(batch) : RowOf(store, batch[k].id) = {},
                  round |-> 1,
                  prevResults |-> NoResults,
                  prevFresh |-> FALSE,
                  commitFailed |-> FALSE, raised |-> FALSE]
    /\ inTxn' = TRUE
    /\ lastUpsert' = NoUpsert
    /\ UNCHANGED <<store, durable, rulesVars, tokenVars, applyVars, syncVars, adminVars, sideVars>>

\* The route of the delimited-text import: the checks of the XML route, the
\* normaliser, whose throw ends the request with status 500, and the batch.
importCsvRoute(body) ==
    /\ Quiet
    /\ IF ValidationStatus(body) # 0
       THEN Answer("import-csv", ValidationStatus(body), body)
       ELSE IF processCsvForImport(body.rows, body.accountId).threw
       THEN Answer("import-csv", 500, body)
       ELSE IF Len(processCsvForImport(body.rows, body.accountId).transactions) = 0
       THEN Answer("import-csv", 200, body)
       ELSE importCsv(body.rows, body.accountId)

InitValidate == InitAdmin

NextValidate ==
    \/ \E body \in XmlBodies : importXmlRoute(body)
    \/ \E body \in CsvBodies : importCsvRoute(body)
    \/ UpsertNext
    \/ CommitSucceeds
    \/ CommitFails
    \/ Rollback
    \/ Respond
    \/ AdminResponds

SpecValidate == InitValidate /\ [][NextValidate]_vars

\* A header has a column of a kind when one of its names holds the word.
NamesColumn(header, word) ==
    \E i \in 1..Len(header) : includes(toLowerCase(header[i]), word)

HeaderLacksColumn(rows) ==
    /\ Len(rows) >= 1
    /\ \/ ~NamesColumn(rows[1], <<"d", "a", "t", "e">>)
       \/ ~NamesColumn(rows[1], <<"a", "m", "o", "u", "n", "t">>)

InvalidImport(request) ==
    \/ ~request.body.hasContent
    \/ request.body.accountId = <<>>
    \/ getAccountById(accounts, request.body.accountId) = {}
    \/ request.route = "import-csv" /\ HeaderLacksColumn(request.body.rows)

\* C20: an import whose content is missing, whose account is missing or
\* unknown, or whose delimited-text header names no date column or no
\* amount column is answered with an error, and the store is as it was
\* before the request: no row inserted or updated, no storage transaction
\* opened, no batch begun for it.
C20_UpFrontValidation ==
    /\ (lastRequest.done /\ lastRequest.route # "none" /\ InvalidImport(lastRequest)) =>
          /\ lastRequest.status >= 400
          /\ store = lastRequest.store
          /\ durable = lastRequest.store
          /\ ~inTxn
          /\ imp = NoImport
    /\ imp.pc # "idle" => getAccountById(accounts, imp.accountId) # {}

(***************************************************************************)
(* Properties shared by the normalisers.                                   *)
(***************************************************************************)
\* C21: a source row without a readable date, or with an amount that is
\* zero or empty, gives no transaction: no record handed to the batch
\* importer and no stored row has a missing date or an amount of zero.
C21_EdgeRowsAreDropped ==
    /\ \A k \in 1..Len(imp.batch) :
          /\ imp.batch[k].transactionDate # NoDate
          /\ imp.batch[k].amount # 0
    /\ \A r \in store :
          /\ r.transaction_date # NoDate
          /\ r.amount # 0

(***************************************************************************)
(* The normalisers called on their own: one record in, one record out,     *)
(* one call at a time.                                                     *)
(***************************************************************************)
\* Source amounts in cents; 1955.83 is a whole number of cents when divided
\* by the rate of the remote path. None is zero, and no quotient by a rate
\* of the table lands on half a cent.
NormAmounts == {100, -2898, 10000, 195583, -195583, 700, 6, -50000}

EUR == <<"E", "U", "R">>

\* The currencies of the table, and one it does not hold.
NormCurrencies ==
    { <<"B", "G", "N">>, EUR, <<"U", "S", "D">>, <<"G", "B", "P">>,
      <<"R", "O", "N">>, <<"P", "L", "N">>, <<"C", "H", "F">>, <<"C", "Z", "K">>,
      <<"H", "U", "F">>, <<"T", "R", "Y">>, <<"X", "X", "X">> }

\* The currency as the markup route and the remote service name it.
CurrencyLabel(currency) ==
    IF currency = EUR THEN "EUR"
    ELSE IF CurrencyRate(currency) = 0 THEN "XXX" ELSE CurrencyName(currency)

NormDate == <<"2", "0", "2", "4", "-", "0", "3", "-", "1", "0">>

movementOf(a) ==
    [ValueDate |-> <<"1", "0", ".", "0", "3", ".", "2", "0", "2", "4">>,
     Reason |-> <<"b">>, Amount |-> toFixed(Abs(a)),
     MovementType |-> IF a < 0 THEN "Debit" ELSE "Credit",
     OppositeSideName |-> <<>>]

csvOf(a, currency) ==
    << << <<"C", "o", "m", "p", "l", "e", "t", "e", "d", " ", "D", "a", "t", "e">>,
          <<"A", "m", "o", "u", "n", "t">>,
          <<"D", "e", "s", "c", "r", "i", "p", "t", "i", "o", "n">>,
          <<"C", "u", "r", "r", "e", "n", "c", "y">> >>,
       <<NormDate, toFixed(a), <<"b">>, currency>> >>

bookedOf(a, label) ==
    [transactionId |-> <<"T", "9">>, internalTransactionId |-> <<>>,
     bookingDate |-> NormDate, valueDate |-> <<>>,
     transactionAmount |-> [amount |-> toFixed(a), currency |-> label],
     remittanceInformationUnstructured |-> <<"b">>,
     additionalInformation |-> <<>>, creditorName |-> <<>>]

AmountsOf(transaction) ==
    [amount           |-> transaction.amount,
     originalAmount   |-> transaction.originalAmount,
     originalCurrency |-> transaction.originalCurrency]

Normalised(path, a, currency, transaction) ==
    /\ norm' = [op |-> "amount", path |-> path, a |-> a, currency |-> currency,
                out |-> AmountsOf(transaction)]
    /\ UNCHANGED <<rulesVars, tokenVars, importVars, applyVars, syncVars, adminVars, other, pair>>

\* processXmlForImport of a statement of one movement, under a currency hint.
NormaliseXml(a, currency) ==
    /\ norm = NoNorm
    /\ currency \in {EUR, <<"B", "G", "N">>, <<"U", "S", "D">>}
    /\ Normalised("xml", a, currency,
                  processXmlForImport(<<movementOf(a)>>, StatementAccount.id,
                                      CurrencyLabel(currency))[1])

\* processCsvForImport of a file of one row.
NormaliseCsv(a, currency) ==
    /\ norm = NoNorm
    /\ \E out \in {processCsvForImport(csvOf(a, currency), StatementAccount.id)} :
          /\ ~out.threw
          /\ Len(out.transactions) = 1
          /\ Normalised("csv", a, currency, out.transactions[1])

\* The transaction syncAccountTransactions builds from one booked entry.
NormaliseRemote(a, currency) ==
    /\ norm = NoNorm
    /\ \/ currency \in {EUR, <<"U", "S", "D">>}
       \/ currency = <<"B", "G", "N">> /\ a % GC_BGN_TO_EUR_RATE = 0
    /\ Normalised("remote", a, currency,
                  remoteTransaction(bookedOf(a, CurrencyLabel(currency)),
                                    StatementAccount.id))

\* The call has returned.
NormaliseReturns ==
    /\ norm # NoNorm
    /\ norm' = NoNorm
    /\ UNCHANGED <<rulesVars, tokenVars, importVars, applyVars, syncVars, adminVars, other, pair>>

InitNormalise == InitAdmin

NextNormalise ==
    \/ \E a \in NormAmounts, currency \in NormCurrencies :
          \/ NormaliseXml(a, currency)
          \/ NormaliseCsv(a, currency)
          \/ NormaliseRemote(a, currency)
    \/ NormaliseReturns

SpecNormalise == InitNormalise /\ [][NextNormalise]_vars

\* q is a/R to the nearest cent, R in ten-thousandths.
IsRounded(q, a, R) == 2 * Abs(q * R - a * 10000) <= R

\* C22: on every ingestion path an amount a in a currency of the rate table
\* other than the euro is stored as a/R rounded to the cent with a and the
\* currency kept as the originals, and an amount in euro is stored as it is
\* with no originals.
C22_SameNormalisationOnEveryPath ==
    norm.op = "amount" =>
        LET R == CurrencyRate(norm.currency)
        IN  /\ norm.currency = EUR =>
                  norm.out = [amount |-> norm.a, originalAmount |-> NoAmount,
                              originalCurrency |-> NoText]
            /\ (norm.currency # EUR /\ R # 0) =>
                  /\ IsRounded(norm.out.amount, norm.a, R)
                  /\ norm.out.originalAmount = norm.a
                  /\ norm.out.originalCurrency = CurrencyName(norm.currency)

(***************************************************************************)
(* The ids the two file normalisers give to a pair of source records.      *)
(***************************************************************************)
IdMovements ==
    { [ValueDate |-> d, Reason |-> r, Amount |-> t, MovementType |-> m,
       OppositeSideName |-> o] :
        d \in { <<"1", "0", ".", "0", "3", ".", "2", "0", "2", "4">>,
                <<"1", "1", ".", "0", "3", ".", "2", "0", "2", "4">> },
        r \in { <<"A">>, <<"b">> },
        t \in { <<"5">>, <<"5", ",", "0", "0">>, <<"7">> },
        m \in { "Debit", "Credit" },
        o \in { <<>>, <<"a">> } }

IdHeader ==
    << <<"C", "o", "m", "p", "l", "e", "t", "e", "d", " ", "D", "a", "t", "e">>,
       <<"A", "m", "o", "u", "n", "t">>,
       <<"D", "e", "s", "c", "r", "i", "p", "t", "i", "o", "n">>,
       <<"F", "e", "e">> >>

\* Two times of one day, and another day.
IdRows ==
    { <<d, t, r, f>> :
        d \in { NormDate \o <<" ", "1", "0", ":", "0", "0", ":", "0", "0">>,
                NormDate \o <<" ", "1", "1", ":", "0", "0", ":", "0", "0">>,
                <<"2", "0", "2", "4", "-", "0", "3", "-", "1", "1">> },
        t \in { <<"-", "5", ".", "0", "0">>, <<"7", ".", "0", "0">> },
        r \in { <<"T", "o", " ", "a">> },
        f \in { <<"0", ".", "0", "0">>, <<"0", ".", "1", "0">> } }

\* The fields the identity of a record is stated over.
FieldsOf(transaction) ==
    [transactionDate  |-> transaction.transactionDate,
     description      |-> transaction.description,
     amount           |-> transaction.amount,
     counterpartyName |-> transaction.counterpartyName]

Identified(path, rawX, rawY, x, y, idX, idY) ==
    /\ norm' = [op |-> "id", path |-> path, rawX |-> rawX, rawY |-> rawY,
                x |-> FieldsOf(x), y |-> FieldsOf(y), idX |-> idX, idY |-> idY]
    /\ UNCHANGED <<rulesVars, tokenVars, importVars, applyVars, syncVars, adminVars, other, pair>>

\* The ids processXmlForImport gives to the two movements of a statement in
\* euro.
IdentifyMovements(m1, m2) ==
    /\ norm = NoNorm
    /\ \E out \in {processXmlForImport(<<m1, m2>>, StatementAccount.id, "EUR")} :
          Identified("xml", m1, m2, out[1], out[2], out[1].id, out[2].id)

\* The ids processCsvForImport gives to the two rows of a file.
IdentifyRows(r1, r2) ==
    /\ norm = NoNorm
    /\ \E out \in {processCsvForImport(<<IdHeader, r1, r2>>, StatementAccount.id)} :
          /\ ~out.threw
          /\ Len(out.transactions) = 2
          /\ Identified("csv", r1, r2, out.transactions[1], out.transactions[2],
                        out.transactions[1].id, out.transactions[2].id)

InitIdentify == InitAdmin

NextIdentify ==
    \/ \E m1 \in IdMovements, m2 \in IdMovements : IdentifyMovements(m1, m2)
    \/ \E r1 \in IdRows, r2 \in IdRows : IdentifyRows(r1, r2)
    \/ NormaliseReturns

SpecIdentify == InitIdentify /\ [][NextIdentify]_vars

IdFields == {"transactionDate", "description", "amount", "counterpartyName"}

DifferingFields(x, y) == {f \in IdFields : x[f] # y[f]}

DifferingCells(r1, r2) == {i \in 1..Len(r1) : r1[i] # r2[i]}

HasPrefix(id, prefix) == Len(id) > Len(prefix) /\ SubSeq(id, 1, Len(prefix)) = prefix

BatchOpen == inTxn /\ imp.pc \in {"upserting", "committing", "rollback"}

BatchIds == {imp.batch[k].id : k \in 1..Len(imp.batch)}

\* syncAccountTransactions upserts one booked transaction while a batch is
\* between two of its awaits: the row is written, and is durable when the
\* open transaction commits.
SyncBeside(tx, accountId) ==
    /\ BatchOpen
    /\ other = NoOther
    /\ \E rows \in getAllCategorizationRules(rulesTable, categories) :
          LET built == remoteTransaction(tx, accountId)
              transaction == [built EXCEPT !.categoryId = categorizeTransaction(rows, built)]
              out == upsertTransaction(store, transaction)
          IN  /\ store' = out.store
              /\ other' = [writes |-> IF out.ok THEN RowOf(out.store, transaction.id)
                                      ELSE {}]
    /\ UNCHANGED <<durable, inTxn, imp, lastUpsert, rulesVars, tokenVars, applyVars,
                   syncVars, adminVars, norm, pair>>

\* updateTransactionNotes of a row the batch does not hold, likewise.
NotesBeside(id, notes) ==
    /\ BatchOpen
    /\ other = NoOther
    /\ RowOf(store, id) # {}
    /\ id \notin BatchIds
    /\ store' = {IF r.id = id THEN [r EXCEPT !.notes = notes] ELSE r : r \in store}
    /\ other' = [writes |-> RowOf(store', id)]
    /\ UNCHANGED <<durable, inTxn, imp, lastUpsert, rulesVars, tokenVars, applyVars,
                   syncVars, adminVars, norm, pair>>

\* The import request answers its caller.
IsolationResponds ==
    /\ imp.pc \in {"done", "failed"}
    /\ imp' = NoImport
    /\ lastUpsert' = NoUpsert
    /\ other' = NoOther
    /\ UNCHANGED <<store, durable, inTxn, rulesVars, tokenVars, applyVars, syncVars,
                   adminVars, norm, pair>>

InitIsolation == InitImport

NextIsolation ==
    \/ StartImport
    \/ UpsertNext
    \/ CommitSucceeds
    \/ CommitFails
    \/ Rollback
    \/ \E tx \in RemoteTransactions, accountId \in Accounts : SyncBeside(tx, accountId)
    \/ \E id \in {r.id : r \in store}, notes \in EditedNotes : NotesBeside(id, notes)
    \/ IsolationResponds

SpecIsolation == InitIsolation /\ [][NextIsolation]_vars

\* C24: what another operation writes while the transaction of a batch is
\* open is durable on its own, whatever becomes of the batch, and is still
\* in the table after the batch was rolled back.
C24_BatchIsolation ==
    \A w \in other.writes :
        /\ w \in durable
        /\ imp.pc = "failed" => w \in store

\* The ids of the rows of a table.
RowIds(st) == {r.id : r \in st}

\* C25: when a batch of n records has returned, imported, skipped and the
\* number of errors add up to n, also when two records of the batch have
\* the same id; imported is the number of rows the call has inserted; every
\* error names the id of a record of the batch.
C25_BatchAccounting ==
    imp.pc = "done" =>
        /\ imp.results.imported + imp.results.skipped + Len(imp.results.errors)
              = BatchSize
        /\ imp.results.imported = Cardinality(RowIds(store) \ RowIds(imp.startStore))
        /\ imp.results.imported = Cardinality(store) - Cardinality(imp.startStore)
        /\ \A e \in 1..Len(imp.results.errors) :
              imp.results.errors[e].transaction \in BatchIds

\* A batch of two records of one id has returned: one inserted, one skipped.
C25_Witness ==
    /\ imp.pc = "done"
    /\ BatchSize = 2
    /\ imp.batch[1].id = imp.batch[2].id
    /\ imp.results.imported = 1
    /\ imp.results.skipped = 1

(***************************************************************************)
(* One call of getAccessToken from entry to return.                        *)
(***************************************************************************)
RequestsOf(kind) == {i \in 1..Len(call.requests) : call.requests[i] = kind}

\* The call read a token it could hand out as it was.
SawReusableToken ==
    /\ call.found
    /\ call.seen.access_token # NoToken
    /\ call.seen.expires_at > call.now0 + TokenBuffer

\* The call read a token together with a refresh token.
SawRefreshToken ==
    /\ call.found
    /\ call.seen.access_token # NoToken
    /\ call.seen.refresh_token # NoToken

CallInProgress == call.pc \in {"reading", "refreshing", "creating"}

CallReturned == call.pc \in {"done", "failed"}

C26_AtMostOneRequestEach ==
    /\ Cardinality(RequestsOf("refresh")) <= 1
    /\ Cardinality(RequestsOf("create")) <= 1
    /\ RequestsOf("refresh") # {} => ~SawReusableToken /\ SawRefreshToken
    /\ RequestsOf("create") # {} =>
          /\ ~SawReusableToken
          /\ ~SawRefreshToken \/ call.refreshFailed
    /\ call.pc = "done" => call.result # NoToken
    /\ call.pc = "failed" =>
          /\ call.requests # <<>>
          /\ call.requests[Len(call.requests)] = "create"
          /\ tokenRows = (IF call.found THEN {call.seen} ELSE {})

PairCalls == {1, 2}

PairUnchanged ==
    UNCHANGED <<now, call, rulesVars, importVars, applyVars, syncVars, adminVars,
                norm, other>>

\* Both calls are entered before either has read.
PairStart ==
    /\ \A p \in PairCalls : pair[p].pc = "idle"
    /\ tokenRows = {}
    /\ pair' = [p \in PairCalls |-> [NoPairCall EXCEPT !.pc = "reading"]]
    /\ UNCHANGED <<tokenRows, issued>>
    /\ PairUnchanged

\* getGoCardlessToken of getAccessToken resolves.
PairRead(p) ==
    /\ pair[p].pc = "reading"
    /\ LET found == tokenRows # {}
           tokenData == IF found THEN CHOOSE r \in tokenRows : TRUE ELSE NoRow
       IN  pair' =
             IF /\ found
                /\ tokenData.access_token # NoToken
                /\ TokenStillValid(tokenData.expires_at, now)
             THEN [pair EXCEPT ![p].pc = "done", ![p].result = tokenData.access_token]
             ELSE [pair EXCEPT ![p].pc = "creating"]
    /\ UNCHANGED <<tokenRows, issued>>
    /\ PairUnchanged

\* POST /token/new/ is answered.
PairExchange(p, d, withRefresh) ==
    /\ pair[p].pc = "creating"
    /\ issued < MaxIssued
    /\ pair' = [pair EXCEPT ![p].pc = "saving",
                            ![p].resp = [access_token |-> issued + 1,
                                         refresh_token |-> IF withRefresh THEN issued + 1
                                                           ELSE NoToken,
                                         expires_at |-> now + d]]
    /\ issued' = issued + 1
    /\ UNCHANGED tokenRows
    /\ PairUnchanged

\* POST /token/new/ fails: createNewToken throws.
PairExchangeFails(p) ==
    /\ pair[p].pc = "creating"
    /\ pair' = [pair EXCEPT ![p].pc = "failed", ![p].exchangeFailed = TRUE]
    /\ UNCHANGED <<tokenRows, issued>>
    /\ PairUnchanged

\* const existing = await getGoCardlessToken() of saveGoCardlessToken.
PairSaveReads(p) ==
    /\ pair[p].pc = "saving"
    /\ pair' = [pair EXCEPT ![p].pc = "writing", ![p].existing = (tokenRows # {})]
    /\ UNCHANGED <<tokenRows, issued>>
    /\ PairUnchanged

\* The UPDATE of the row with id 1, or the INSERT of a row with id 1, which
\* the primary key refuses when the table holds one: saveGoCardlessToken
\* rejects and the catch of createNewToken throws.
PairSaveWrites(p) ==
    /\ pair[p].pc = "writing"
    /\ IF pair[p].existing
       THEN /\ tokenRows' = IF tokenRows # {} THEN {pair[p].resp} ELSE tokenRows
            /\ pair' = [pair EXCEPT ![p].pc = "done",
                                    ![p].result = pair[p].resp.access_token]
       ELSE IF tokenRows = {}
       THEN /\ tokenRows' = {pair[p].resp}
            /\ pair' = [pair EXCEPT ![p].pc = "done",
                                    ![p].result = pair[p].resp.access_token]
       ELSE /\ tokenRows' = tokenRows
            /\ pair' = [pair EXCEPT ![p].pc = "failed"]
    /\ UNCHANGED issued
    /\ PairUnchanged

\* deleteGoCardlessToken, once both calls have returned.
PairClears ==
    /\ \A p \in PairCalls : pair[p].pc \in {"done", "failed"}
    /\ tokenRows' = {}
    /\ pair' = NoPair
    /\ UNCHANGED issued
    /\ PairUnchanged

InitPair == InitToken

NextPair ==
    \/ PairStart
    \/ \E p \in PairCalls :
          \/ PairRead(p)
          \/ \E d \in Durations, withRefresh \in BOOLEAN : PairExchange(p, d, withRefresh)
          \/ PairExchangeFails(p)
          \/ PairSaveReads(p)
          \/ PairSaveWrites(p)
    \/ PairClears

SpecPair == InitPair /\ [][NextPair]_vars

\* C27: when two calls entered at once on an empty token table have both
\* returned and no exchange failed, both have returned a token, and the
\* table holds one row whose access token, refresh token and expiry are
\* those of one exchange response.
C27_ConcurrentCallsBothSucceed ==
    ( /\ \A p \in PairCalls : pair[p].pc \in {"done", "failed"}
      /\ \A p \in PairCalls : ~pair[p].exchangeFailed )
    =>
    /\ \A p \in PairCalls : pair[p].pc = "done" /\ pair[p].result # NoToken
    /\ \E p \in PairCalls :
          pair[p].resp.access_token # NoToken /\ tokenRows = {pair[p].resp}

(***************************************************************************)
(* The bulk operation run twice in a row.                                  *)
(***************************************************************************)
\* Two uncategorized entries of one counterparty: the later one is matched
\* by no rule, the earlier one by the rule on its description.
TwiceEntries ==
    ManualEntries \cup
    { [transactionDate |-> <<"2", "4", "-", "0", "3", "-", "0", "9">>, amount |-> -300,
       description |-> <<"b">>, counterpartyName |-> <<"a">>, categoryId |-> NoCategory] }

InitApplyTwice == InitApply

NextApplyTwice ==
    \/ \E transaction \in TwiceEntries : createManualTransaction(transaction)
    \/ applyRulesToUncategorized_load(UncategorizedLimit)
    \/ applyRulesToUncategorized_step
    \/ applyRulesToUncategorized_again
    \/ applyRulesToUncategorized_return

SpecApplyTwice == InitApplyTwice /\ [][NextApplyTwice]_vars

\* C28: a run of the bulk operation that follows a run at once, with no
\* write in between, categorizes nothing.
C28_SecondRunCategorizesNothing ==
    (bulk.pc = "done" /\ bulk.round = 2) => bulk.categorizedCount = 0

(***************************************************************************)
(* deleteCategory while an import is between the categorization of its     *)
(* records and their upserts. The schema declares the foreign keys, and    *)
(* the connection never turns their enforcement on.                        *)
(***************************************************************************)
\* The three statements of deleteCategory, run one after the other at any
\* await of the import; inside the open transaction the UPDATE of the
\* transactions is durable when the transaction commits.
deleteCategoryBeside(id) ==
    /\ id \in categories
    /\ store' = {IF r.category_id = id THEN [r EXCEPT !.category_id = NoCategory] ELSE r
                 : r \in store}
    /\ durable' = IF inTxn THEN durable ELSE store'
    /\ rulesTable' = RulesAfterDelete(rulesTable, id)
    /\ categories' = categories \ {id}
    /\ UNCHANGED <<clock, nextRuleId, lastCall, inTxn, imp, lastUpsert, tokenVars,
                   applyVars, syncVars, adminVars, sideVars>>

InitIntegrity == InitImport

NextIntegrity ==
    \/ StartImport
    \/ UpsertNext
    \/ CommitSucceeds
    \/ Respond
    \/ \E id \in CategoryIds : deleteCategoryBeside(id)

SpecIntegrity == InitIntegrity /\ [][NextIntegrity]_vars

\* C29: whatever the interleaving of deleteCategory with an import, every
\* stored transaction has no category or an existing one, and every rule
\* names an existing category.
C29_CategoryReferencesExist ==
    /\ \A r \in store : r.category_id = NoCategory \/ r.category_id \in categories
    /\ \A rule \in rulesTable : rule.category_id \in categories

(***************************************************************************)
(* One statement imported twice: into an account under a currency hint,    *)
(* then, as soon as that import has returned, into any account under any   *)
(* hint.                                                                   *)
(***************************************************************************)
TargetAccounts == Accounts \cup { <<"a", "c", "c", "2">> }

TargetHints == {"BGN", "EUR"}

ImportInto ==
    /\ Sequential
    /\ store = {}
    /\ \E statement \in Statements, accountId \in TargetAccounts, currency \in TargetHints :
          importXml(statement, accountId, currency, 1)

ImportAgainInto ==
    /\ imp.pc = "done" /\ imp.round = 1
    /\ \E accountId \in TargetAccounts, currency \in TargetHints :
          importXml(imp.statement, accountId, currency, 2)

InitRetarget == InitImport

NextRetarget ==
    \/ ImportInto
    \/ UpsertNext
    \/ CommitSucceeds
    \/ ImportAgainInto

SpecRetarget == InitRetarget /\ [][NextRetarget]_vars

\* The second import of the statement names another account or another
\* hint than the rows of the first carry.
Retargeted ==
    \/ \E r \in imp.startStore : r.account_id # imp.accountId
    \/ \E r \in imp.startStore :
          (r.original_currency = "BGN") # (imp.currency = "BGN")

\* C30: when a statement is imported again into another account or under
\* another currency hint, the second import reports every record as
\* skipped, adds no row, and leaves every row under the account of the
\* first import.
C30_IdentityIgnoresAccountAndHint ==
    (imp.pc = "done" /\ imp.round = 2 /\ Retargeted) =>
        /\ imp.results.imported = 0
        /\ imp.results.skipped = BatchSize
        /\ RowIds(store) = RowIds(imp.startStore)
        /\ \A r \in store :
              \E q \in imp.startStore : q.id = r.id /\ q.account_id = r.account_id

====
